---- MODULE Spec2Model ----
(***************************************************************************)
(* Model of the terminal dashboard (bubbletea program) of                  *)
(* src/unnamed/part_002: the model struct, its Update handler, the         *)
(* background commands it dispatches, and the remote category store the    *)
(* commands talk to.                                                       *)
(*                                                                         *)
(* Texts (field values, item names) are sequences of one-character         *)
(* strings, so that parsing and formatting are computed.  Prices are kept  *)
(* in hundredths.  Go slices are kept as a backing array plus a length:    *)
(* the sync command closes over the slice and serialises it later, in its  *)
(* own goroutine, so what it sends depends on the backing array.           *)
(***************************************************************************)
EXTENDS Integers, Sequences, FiniteSets, TLC

\* ---------------------------------------------------------------- bounds
MaxDispatch == 3
MaxItems == 2
MaxCart == 1
MaxCats == 3
MaxText == 1

\* ------------------------------------------------------- program constants
stateMenu == "Menu"
stateFood == "FoodList"
stateFoodRecipe == "FoodRecipe"
stateFoodBuy == "FoodCheckout"
stateProcessingBuy == "FoodCheckoutProcessing"
stateSubs == "Subscriptions"
stateStudy == "Academics"
stateScrapingCanvas == "AcademicsSyncing"
stateAddFood == "FoodForm"
stateAddSub == "SubscriptionForm"

sessionState ==
  {stateMenu, stateFood, stateFoodRecipe, stateFoodBuy, stateProcessingBuy,
   stateSubs, stateStudy, stateScrapingCanvas, stateAddFood, stateAddSub}

subCycleChoices == <<"Monthly", "3 Months", "Yearly">>
menuChoices == <<"Food", "Subscriptions", "Academics">>
buyChoices == <<"Delivery", "Pick Up">>
totalFields == 4
RestockQty == 3
CharLimit == 32

\* Messages are sequences of strings (a fixed text, or a fixed text around a
\* name or an error).
StatusFetching == <<"Fetching data...">>
StatusLoaded == <<"Data loaded successfully.">>
StatusSyncing == <<"Syncing...">>
StatusSyncingDeletion == <<"Syncing deletion...">>
StatusSyncingCanvas == <<"Syncing Canvas data...">>
StatusSaved == <<"Saved securely to database">>
StatusOrderPlaced == <<"Order placed! Stock updated in database">>
StatusCanvasDone == <<"Canvas sync complete!">>
RecipeConnecting == <<"Connecting to API and generating recipe...">>

CategoryNames == {"Food", "Subscriptions", "Academics"}

\* ------------------------------------------------------------------ texts
DigitChars == <<"0", "1", "2", "3", "4", "5", "6", "7", "8", "9">>

IsDigit(c) == \E d \in 1..10 : DigitChars[d] = c

DigitVal(c) == (CHOOSE d \in 1..10 : DigitChars[d] = c) - 1

AllDigits(s) == \A i \in 1..Len(s) : IsDigit(s[i])

RECURSIVE DigitsVal(_)
DigitsVal(s) ==
  IF s = <<>> THEN 0
  ELSE 10 * DigitsVal(SubSeq(s, 1, Len(s) - 1)) + DigitVal(s[Len(s)])

HasSign(s) == Len(s) > 0 /\ s[1] \in {"+", "-"}

Unsigned(s) == IF HasSign(s) THEN Tail(s) ELSE s

SignOf(s) == IF Len(s) > 0 /\ s[1] = "-" THEN -1 ELSE 1

\* The decimal digits of n >= 0.
RECURSIVE NatText(_)
NatText(n) ==
  IF n < 10 THEN <<DigitChars[n + 1]>>
  ELSE NatText(n \div 10) \o <<DigitChars[(n % 10) + 1]>>

\* Go's int is 32 or 64 bits wide, as the build has it.  The model takes the
\* 32 bits of the 32-bit builds, the widest TLC's integers hold: IntMax is the
\* largest int.  With 64 bits the same happens from 20 digits on.
IntMax == 2147483647

RECURSIVE StripZeros(_)
StripZeros(u) == IF Len(u) > 1 /\ u[1] = "0" THEN StripZeros(Tail(u)) ELSE u

\* The digits u are a number above IntMax.
OutOfRange(u) ==
  LET d == StripZeros(u)
      top == NatText(IntMax)
  IN  \/ Len(d) > Len(top)
      \/ /\ Len(d) = Len(top)
         /\ \E i \in 1..Len(d) :
              /\ \A j \in 1..(i - 1) : d[j] = top[j]
              /\ DigitVal(d[i]) > DigitVal(top[i])

\* The error of strconv.Atoi: a syntax error, or a range error for a number
\* that does not fit an int.
AtoiFails(s) ==
  LET u == Unsigned(s)
  IN  u = <<>> \/ ~AllDigits(u) \/ OutOfRange(u)

\* strconv.Atoi with the error dropped: 0 on a syntax error, the int of the
\* largest magnitude and the number's sign on a range error.
Atoi(s) ==
  LET u == Unsigned(s)
  IN  IF u = <<>> \/ ~AllDigits(u) THEN 0
      ELSE IF OutOfRange(u) THEN (IF SignOf(s) < 0 THEN -IntMax - 1 ELSE IntMax)
      ELSE SignOf(s) * DigitsVal(u)

\* a + b of two ints, b >= 0, wrapping round past IntMax.
IntAdd(a, b) ==
  IF a > IntMax - b THEN (-IntMax - 1) + (a - (IntMax - b) - 1) ELSE a + b

DotAt(u) == {i \in 1..Len(u) : u[i] = "."}

\* strconv.ParseFloat with the error dropped, in hundredths: sign, digits,
\* optional point and at most two fraction digits; 0 on a syntax error.
ParseFloat(s) ==
  LET u == Unsigned(s)
      dots == DotAt(u)
  IN  IF dots = {} THEN
        IF u # <<>> /\ AllDigits(u) THEN SignOf(s) * 100 * DigitsVal(u) ELSE 0
      ELSE
        LET p == CHOOSE i \in dots : TRUE
            ip == SubSeq(u, 1, p - 1)
            fp == SubSeq(u, p + 1, Len(u))
        IN  IF Cardinality(dots) = 1 /\ AllDigits(ip) /\ AllDigits(fp)
               /\ Len(ip) + Len(fp) > 0 /\ Len(fp) <= 2
            THEN SignOf(s) * (100 * DigitsVal(ip)
                   + (IF Len(fp) = 1 THEN 10 ELSE 1) * DigitsVal(fp))
            ELSE 0

\* strconv.Itoa
Itoa(n) == IF n < 0 THEN <<"-">> \o NatText(-n) ELSE NatText(n)

\* fmt.Sprintf("%.2f", price) of a price held in hundredths
FormatPrice(p) ==
  LET a == IF p < 0 THEN -p ELSE p
  IN  (IF p < 0 THEN <<"-">> ELSE <<>>) \o NatText(a \div 100)
        \o <<".", DigitChars[((a % 100) \div 10) + 1], DigitChars[(a % 10) + 1]>>

\* ----------------------------------------------------------- data structures
FoodItem(name, price, amount, thresh, cart) ==
  [Name |-> name, Price |-> price, Amount |-> amount,
   RenewThreshold |-> thresh, CartQty |-> cart]

SubItem(name, price, date, cycle) ==
  [Name |-> name, Price |-> price, DueDate |-> date, Cycle |-> cycle]

StudyItem(name, date) == [Name |-> name, DueDate |-> date]

FoodZero == FoodItem(<<>>, 0, 0, 0, 0)
SubZero == SubItem(<<>>, 0, <<>>, <<>>)

\* What json.Marshal writes for an item: CartQty carries the tag json:"-".
FoodJSON(it) ==
  [name |-> it.Name, price |-> it.Price, amount |-> it.Amount,
   renewThreshold |-> it.RenewThreshold]

SubJSON(it) ==
  [name |-> it.Name, price |-> it.Price, dueDate |-> it.DueDate, cycle |-> it.Cycle]

\* json.Unmarshal into an element that is already there sets the fields the
\* document has and keeps the others.
DecodeFood(old, j) ==
  FoodItem(j.name, j.price, j.amount, j.renewThreshold, old.CartQty)

DecodeSub(old, j) == SubItem(j.name, j.price, j.dueDate, j.cycle)

StudyJSON(it) == [name |-> it.Name, dueDate |-> it.DueDate]

DecodeStudy(docs) == [i \in 1..Len(docs) |-> StudyItem(docs[i].name, docs[i].dueDate)]

\* ------------------------------------------------------------- Go slices
\* A slice is its backing array (arr, whose length is the capacity) and its
\* length.  The capacity changes exactly when a new array is allocated.
NilSlice == [arr |-> <<>>, len |-> 0]

Elems(s) == SubSeq(s.arr, 1, s.len)

Cap(s) == Len(s.arr)

Zeros(n, zero) == [i \in 1..n |-> zero]

GrowCap(cap) == IF cap = 0 THEN 1 ELSE 2 * cap

RECURSIVE CapFor(_, _)
CapFor(cap, n) == IF cap >= n THEN cap ELSE CapFor(GrowCap(cap), n)

\* append(s, x): in place when the capacity allows, else into a new array.
GoAppend(s, x, zero) ==
  IF s.len < Cap(s)
  THEN [s EXCEPT !.arr = [s.arr EXCEPT ![s.len + 1] = x], !.len = s.len + 1]
  ELSE [arr |-> Elems(s) \o <<x>> \o Zeros(GrowCap(Cap(s)) - s.len - 1, zero),
        len |-> s.len + 1]

\* Variant of DeleteAt that drops the last element.
DeleteAt_Last(s, c) == [s EXCEPT !.len = s.len - 1]

\* append(s[:c], s[c+1:]...) for 0 <= c < len(s): the tail is moved down
\* inside the same array, whose last used slot keeps its old content.
DeleteAt(s, c) ==
  [s EXCEPT !.arr = [i \in 1..Cap(s) |->
                       IF i > c /\ i < s.len THEN s.arr[i + 1] ELSE s.arr[i]],
            !.len = s.len - 1]

\* s[i] = x for 0 <= i < len(s)
\* Variant of SetAt that writes the last element whatever the index.
SetAt_Last(s, i, x) == [s EXCEPT !.arr = [s.arr EXCEPT ![s.len] = x]]

SetAt(s, i, x) == [s EXCEPT !.arr = [s.arr EXCEPT ![i + 1] = x]]

\* s[i] for 0 <= i < len(s)
At(s, i) == s.arr[i + 1]

\* json.Unmarshal(items, &s) of an array of documents: element i is decoded
\* into slot i of the array, which grows when the capacity is used up; the
\* length becomes the number of documents, and an empty array gives a new
\* empty slice.
UnmarshalFood(s, docs) ==
  IF docs = <<>> THEN NilSlice
  ELSE LET cap == CapFor(Cap(s), Len(docs))
           old(i) == IF i <= Cap(s) THEN s.arr[i] ELSE FoodZero
       IN  [arr |-> [i \in 1..cap |->
                       IF i <= Len(docs) THEN DecodeFood(old(i), docs[i]) ELSE old(i)],
            len |-> Len(docs)]

UnmarshalSub(s, docs) ==
  IF docs = <<>> THEN NilSlice
  ELSE LET cap == CapFor(Cap(s), Len(docs))
           old(i) == IF i <= Cap(s) THEN s.arr[i] ELSE SubZero
       IN  [arr |-> [i \in 1..cap |->
                       IF i <= Len(docs) THEN DecodeSub(old(i), docs[i]) ELSE old(i)],
            len |-> Len(docs)]

\* ---------------------------------------------------------------- commands
\* A tea.Cmd as Update returns it.  For a sync, items is the length of the
\* slice the closure holds (its array is the collection's current one).
Cmd(kind, name, catId, items, ingredients) ==
  [kind |-> kind, name |-> name, catId |-> catId, items |-> items,
   ingredients |-> ingredients]

NoCmd == Cmd("none", "", "", 0, <<>>)
QuitCmd == Cmd("quit", "", "", 0, <<>>)
PanicCmd == Cmd("panic", "", "", 0, <<>>)

fetchCategoriesCmd == Cmd("fetch", "", "", 0, <<>>)

syncCategoryCmd(name, catId, items) == Cmd("sync", name, catId, items.len, <<>>)

generateRecipeCmd(ingredients) == Cmd("recipe", "", "", 0, ingredients)

processBuyCmd == Cmd("buy", "", "", 0, <<>>)

scrapeCanvasCmd == Cmd("scrape", "", "", 0, <<>>)

\* Variant of SyncMethod with the two requests exchanged.
SyncMethod_Exchanged(catId) == IF catId = "" THEN "PUT" ELSE "POST"

\* The request a sync command sends: a create without an id, else an update
\* of the category with that id.
SyncMethod(catId) == IF catId = "" THEN "POST" ELSE "PUT"

\* ------------------------------------------------------------------- model
initialModel ==
  [state |-> stateMenu, cursor |-> 0, inputs |-> <<>>, focusIndex |-> 0,
   editIndex |-> -1, statusMsg |-> StatusFetching,
   catIDs |-> [n \in CategoryNames |-> ""],
   subCycleChoice |-> 0,
   foodItems |-> NilSlice, subItems |-> NilSlice, studyItems |-> <<>>,
   generatedRecipe |-> <<>>, isGenerating |-> FALSE]

Ret(mm, cmd) == [m |-> mm, cmd |-> cmd]

\* Variant of goBack that keeps the cursor.
goBack_KeepCursor(mm) ==
  LET st == IF mm.state \in {stateFoodRecipe, stateFoodBuy, stateAddFood,
                             stateProcessingBuy} THEN stateFood
            ELSE IF mm.state = stateAddSub THEN stateSubs
            ELSE IF mm.state = stateScrapingCanvas THEN stateStudy
            ELSE stateMenu
  IN  [mm EXCEPT !.state = st]

goBack(mm) ==
  LET st == IF mm.state \in {stateFoodRecipe, stateFoodBuy, stateAddFood,
                             stateProcessingBuy} THEN stateFood
            ELSE IF mm.state = stateAddSub THEN stateSubs
            ELSE IF mm.state = stateScrapingCanvas THEN stateStudy
            ELSE stateMenu
  IN  [mm EXCEPT !.state = st, !.cursor = 0]

CycleIndex(cycle) ==
  IF \E i \in 1..Len(subCycleChoices) : subCycleChoices[i] = cycle
  THEN (CHOOSE i \in 1..Len(subCycleChoices) : subCycleChoices[i] = cycle) - 1
  ELSE 0

\* initForm, called with mm.state and mm.editIndex already set.
\* Variant of initForm that opens every form empty, an edit form included.
initForm_Blank(mm, state, isEdit) ==
  IF state = stateAddFood
  THEN [mm EXCEPT !.focusIndex = 0, !.inputs = <<<<>>, <<>>, <<>>, <<>>>>]
  ELSE [mm EXCEPT !.focusIndex = 0, !.inputs = <<<<>>, <<>>, <<>>>>,
                  !.subCycleChoice = 0]

initForm(mm, state, isEdit) ==
  IF state = stateAddFood THEN
    IF isEdit /\ mm.editIndex >= 0 THEN
      LET item == At(mm.foodItems, mm.editIndex)
      IN  [mm EXCEPT !.focusIndex = 0,
                     !.inputs = <<item.Name, FormatPrice(item.Price),
                                  Itoa(item.Amount), Itoa(item.RenewThreshold)>>]
    ELSE [mm EXCEPT !.focusIndex = 0, !.inputs = <<<<>>, <<>>, <<>>, <<>>>>]
  ELSE
    IF isEdit /\ mm.editIndex >= 0 THEN
      LET item == At(mm.subItems, mm.editIndex)
      IN  [mm EXCEPT !.focusIndex = 0,
                     !.inputs = <<item.Name, FormatPrice(item.Price), item.DueDate>>,
                     !.subCycleChoice = CycleIndex(item.Cycle)]
    ELSE [mm EXCEPT !.focusIndex = 0, !.inputs = <<<<>>, <<>>, <<>>>>,
                    !.subCycleChoice = 0]

AutoRenewMsg(name) == <<"Auto-renew triggered! +3 ">> \o name \o <<" bought">>

TextTBD == <<"T", "B", "D">>

\* Variant of Renews that tops up below the threshold only.
Renews_Below(amount, thresh) == thresh > 0 /\ amount < thresh

\* The auto-renew test of saveForm.
Renews(amount, thresh) == thresh > 0 /\ amount <= thresh

\* saveForm: the model it leaves and the command it returns (NoCmd for nil).
saveForm(mm) ==
  LET name == mm.inputs[1]
  IN
  IF name = <<>> THEN Ret(mm, NoCmd)
  ELSE IF mm.state = stateAddFood THEN
    LET price == ParseFloat(mm.inputs[2])
        typed == Atoi(mm.inputs[3])
        amount0 == IF typed < 0 THEN 0 ELSE typed
        thresh == Atoi(mm.inputs[4])
        renew == Renews(amount0, thresh)
        amount == IF renew THEN IntAdd(amount0, RestockQty) ELSE amount0
        status == IF renew THEN AutoRenewMsg(name) ELSE StatusSyncing
    IN  IF mm.editIndex >= 0 THEN
          IF mm.editIndex >= mm.foodItems.len THEN Ret(mm, PanicCmd)
          ELSE LET newItem == FoodItem(name, price, amount, thresh,
                                       At(mm.foodItems, mm.editIndex).CartQty)
                   items == SetAt(mm.foodItems, mm.editIndex, newItem)
               IN  Ret([mm EXCEPT !.statusMsg = status, !.foodItems = items],
                       syncCategoryCmd("Food", mm.catIDs["Food"], items))
        ELSE LET items == GoAppend(mm.foodItems,
                                   FoodItem(name, price, amount, thresh, 0), FoodZero)
             IN  Ret([mm EXCEPT !.statusMsg = status, !.foodItems = items],
                     syncCategoryCmd("Food", mm.catIDs["Food"], items))
  ELSE IF mm.state = stateAddSub THEN
    LET price == ParseFloat(mm.inputs[2])
        date == IF mm.inputs[3] = <<>> THEN TextTBD ELSE mm.inputs[3]
        cycle == subCycleChoices[mm.subCycleChoice + 1]
        newItem == SubItem(name, price, date, cycle)
    IN  IF mm.editIndex >= 0 THEN
          IF mm.editIndex >= mm.subItems.len THEN Ret(mm, PanicCmd)
          ELSE LET items == SetAt(mm.subItems, mm.editIndex, newItem)
               IN  Ret([mm EXCEPT !.statusMsg = StatusSyncing, !.subItems = items],
                       syncCategoryCmd("Subscriptions", mm.catIDs["Subscriptions"], items))
        ELSE LET items == GoAppend(mm.subItems, newItem, SubZero)
             IN  Ret([mm EXCEPT !.statusMsg = StatusSyncing, !.subItems = items],
                     syncCategoryCmd("Subscriptions", mm.catIDs["Subscriptions"], items))
  ELSE Ret([mm EXCEPT !.statusMsg = StatusSyncing], NoCmd)

\* ------------------------------------------------------------------ events
\* msg.String() of the key events.  A rune key is a printable character: the
\* text inputs of a form take it as text.
RuneKeys == {"q", "k", "j", "a", "e", "d", "s", "+", "-", " ", "r", "c", "1", "2", "x"}

SpecialKeys ==
  {"ctrl+c", "esc", "backspace", "up", "down", "left", "right", "enter",
   "tab", "shift+tab"}

Keys == RuneKeys \cup SpecialKeys

KeyMsg(k) == [type |-> "key", key |-> k, cats |-> <<>>, text |-> <<>>, items |-> <<>>]
dataFetchedMsg(cats) ==
  [type |-> "dataFetched", key |-> "", cats |-> cats, text |-> <<>>, items |-> <<>>]
syncSuccessMsg == [type |-> "syncSuccess", key |-> "", cats |-> <<>>, text |-> <<>>, items |-> <<>>]
recipeGeneratedMsg(text) ==
  [type |-> "recipeGenerated", key |-> "", cats |-> <<>>, text |-> text, items |-> <<>>]
buyCompleteMsg == [type |-> "buyComplete", key |-> "", cats |-> <<>>, text |-> <<>>, items |-> <<>>]
canvasScrapedMsg(items) ==
  [type |-> "canvasScraped", key |-> "", cats |-> <<>>, text |-> <<>>, items |-> items]
errMsg(err) == [type |-> "err", key |-> "", cats |-> <<>>, text |-> err, items |-> <<>>]

\* -------------------------------------------------------------- text inputs
\* textinput.Model.Update of the focused input with its cursor at the end of
\* the text: a rune is appended up to CharLimit, backspace removes the last
\* character, other keys keep the text.
TextInputUpdate(value, k) ==
  IF k \in RuneKeys THEN (IF Len(value) < CharLimit THEN Append(value, k) ELSE value)
  ELSE IF k = "backspace" /\ value # <<>> THEN SubSeq(value, 1, Len(value) - 1)
  ELSE value

\* updateInputs: every input sees the key, the focused one takes it.  The
\* focused input is inputs[focusIndex]; with the cycle selector focused no
\* input is.
updateInputs(mm, k) ==
  [mm EXCEPT !.inputs = [i \in 1..Len(mm.inputs) |->
                           IF i = mm.focusIndex + 1
                           THEN TextInputUpdate(mm.inputs[i], k)
                           ELSE mm.inputs[i]]]

\* ------------------------------------------------------------------ Update
\* Variant of UpdateDataFetched that loads the collections and keeps the ids.
UpdateDataFetched_KeepIds(mm, cats) ==
  LET RECURSIVE Each(_, _)
      Each(cur, i) ==
        IF i > Len(cats) THEN cur
        ELSE LET cat == cats[i]
             IN  Each(IF cat.name = "Food"
                        THEN [cur EXCEPT !.foodItems = UnmarshalFood(@, cat.items)]
                      ELSE IF cat.name = "Subscriptions"
                        THEN [cur EXCEPT !.subItems = UnmarshalSub(@, cat.items)]
                      ELSE IF cat.name = "Academics"
                        THEN [cur EXCEPT !.studyItems = DecodeStudy(cat.items)]
                      ELSE cur,
                      i + 1)
  IN  Ret(Each([mm EXCEPT !.statusMsg = StatusLoaded], 1), NoCmd)

UpdateDataFetched(mm, cats) ==
  LET RECURSIVE Each(_, _)
      Each(cur, i) ==
        IF i > Len(cats) THEN cur
        ELSE LET cat == cats[i]
                 ids == [cur EXCEPT !.catIDs[cat.name] = cat.id]
             IN  Each(IF cat.name = "Food"
                        THEN [ids EXCEPT !.foodItems = UnmarshalFood(@, cat.items)]
                      ELSE IF cat.name = "Subscriptions"
                        THEN [ids EXCEPT !.subItems = UnmarshalSub(@, cat.items)]
                      ELSE IF cat.name = "Academics"
                        THEN [ids EXCEPT !.studyItems = DecodeStudy(cat.items)]
                      ELSE ids,
                      i + 1)
  IN  Ret(Each([mm EXCEPT !.statusMsg = StatusLoaded], 1), NoCmd)

UpdateSyncSuccess(mm) ==
  Ret(IF mm.statusMsg \in {StatusSyncing, StatusSyncingDeletion, StatusSyncingCanvas}
      THEN [mm EXCEPT !.statusMsg = StatusSaved] ELSE mm,
      fetchCategoriesCmd)

\* Variant of UpdateRecipeGenerated that drops a recipe arriving on another
\* screen.
UpdateRecipeGenerated_OnScreenOnly(mm, text) ==
  IF mm.state = stateFoodRecipe
  THEN Ret([mm EXCEPT !.isGenerating = FALSE, !.generatedRecipe = text], NoCmd)
  ELSE Ret(mm, NoCmd)

UpdateRecipeGenerated(mm, text) ==
  Ret([mm EXCEPT !.isGenerating = FALSE, !.generatedRecipe = text], NoCmd)

\* Variant of FoldCart that also tops up an item found at or below its
\* threshold.
FoldCart_Restock(it) ==
  LET amount == it.Amount + it.CartQty
  IN  IF it.CartQty > 0
      THEN [it EXCEPT !.Amount = IF Renews(it.Amount, it.RenewThreshold)
                                 THEN amount + RestockQty ELSE amount,
                      !.CartQty = 0]
      ELSE it

\* Variant of FoldCart that adds the cart to the stock and keeps the cart.
FoldCart_KeepCart(it) ==
  IF it.CartQty > 0 THEN [it EXCEPT !.Amount = it.Amount + it.CartQty] ELSE it

FoldCart(it) ==
  IF it.CartQty > 0
  THEN [it EXCEPT !.Amount = it.Amount + it.CartQty, !.CartQty = 0]
  ELSE it

\* Variant of UpdateBuyComplete that leaves the cursor where it was.
UpdateBuyComplete_KeepCursor(mm) ==
  LET items == [mm.foodItems EXCEPT
                  !.arr = [i \in 1..Cap(mm.foodItems) |->
                             IF i <= mm.foodItems.len THEN FoldCart(mm.foodItems.arr[i])
                             ELSE mm.foodItems.arr[i]]]
  IN  Ret([mm EXCEPT !.foodItems = items, !.state = stateFood,
                     !.statusMsg = StatusOrderPlaced],
          syncCategoryCmd("Food", mm.catIDs["Food"], items))

\* Variant of UpdateBuyComplete that stays on the processing screen.
UpdateBuyComplete_Stay(mm) ==
  LET items == [mm.foodItems EXCEPT
                  !.arr = [i \in 1..Cap(mm.foodItems) |->
                             IF i <= mm.foodItems.len THEN FoldCart(mm.foodItems.arr[i])
                             ELSE mm.foodItems.arr[i]]]
  IN  Ret([mm EXCEPT !.foodItems = items, !.statusMsg = StatusOrderPlaced],
          syncCategoryCmd("Food", mm.catIDs["Food"], items))

UpdateBuyComplete(mm) ==
  LET items == [mm.foodItems EXCEPT
                  !.arr = [i \in 1..Cap(mm.foodItems) |->
                             IF i <= mm.foodItems.len THEN FoldCart(mm.foodItems.arr[i])
                             ELSE mm.foodItems.arr[i]]]
  IN  Ret([mm EXCEPT !.foodItems = items, !.state = stateFood, !.cursor = 0,
                     !.statusMsg = StatusOrderPlaced],
          syncCategoryCmd("Food", mm.catIDs["Food"], items))

UpdateCanvasScraped(mm, items) ==
  Ret([mm EXCEPT !.studyItems = items, !.state = stateStudy, !.cursor = 0,
                 !.statusMsg = StatusCanvasDone],
      fetchCategoriesCmd)

ErrorText(err) == <<"Error: ", err>>
ServerErrorText(err) == <<"Server Error: ", err>>

\* Variant of UpdateErr that also leaves the current screen.
UpdateErr_GoBack(mm, err) ==
  Ret(goBack([mm EXCEPT !.isGenerating = FALSE, !.statusMsg = ErrorText(err)]), NoCmd)

UpdateErr(mm, err) ==
  Ret([mm EXCEPT !.isGenerating = FALSE,
                 !.statusMsg = ErrorText(err),
                 !.generatedRecipe = IF mm.state = stateFoodRecipe
                                     THEN ServerErrorText(err) ELSE @],
      NoCmd)

\* Variant of StepCycle that goes round past either end.
StepCycle_Wrap(c, k) ==
  IF k = "left" THEN (IF c > 0 THEN c - 1 ELSE Len(subCycleChoices) - 1)
  ELSE IF k = "right" THEN (IF c < Len(subCycleChoices) - 1 THEN c + 1 ELSE 0)
  ELSE c

\* The cycle selector after left or right.
StepCycle(c, k) ==
  IF k = "left" /\ c > 0 THEN c - 1
  ELSE IF k = "right" /\ c < Len(subCycleChoices) - 1 THEN c + 1
  ELSE c

\* Variant of SavesOn that saves on enter whatever field is focused.
SavesOn_AnyField(k, f) == k = "enter"

\* The key that saves the form: enter with the last field focused.
SavesOn(k, f) == k = "enter" /\ f = totalFields - 1

\* Variant of WrapFocus that stops at the first and the last field.
WrapFocus_Clamp(f) ==
  IF f > totalFields - 1 THEN totalFields - 1
  ELSE IF f < 0 THEN 0
  ELSE f

\* The focus index after a step past either end of the fields.
WrapFocus(f) ==
  IF f > totalFields - 1 THEN 0
  ELSE IF f < 0 THEN totalFields - 1
  ELSE f

\* The keys of an open form (state is stateAddFood or stateAddSub).
UpdateFormKey(mm, k) ==
  IF k = "esc" THEN Ret(goBack(mm), NoCmd)
  ELSE IF k \in {"left", "right"} /\ mm.state = stateAddSub /\ mm.focusIndex = 3 THEN
    Ret([mm EXCEPT !.subCycleChoice = StepCycle(@, k)], NoCmd)
  ELSE IF k \in {"tab", "shift+tab", "enter", "up", "down"} THEN
    IF SavesOn(k, mm.focusIndex) THEN
      LET saved == saveForm(mm)
      IN  IF saved.cmd = PanicCmd THEN saved ELSE Ret(goBack(saved.m), saved.cmd)
    ELSE
      LET f == IF k \in {"up", "shift+tab"} THEN mm.focusIndex - 1
               ELSE mm.focusIndex + 1
      IN  Ret([mm EXCEPT !.focusIndex = WrapFocus(f)], NoCmd)
  ELSE Ret(updateInputs(mm, k), NoCmd)

\* Variant of DownLimit that takes the length for the last index.
DownLimit_Len(mm) ==
  IF mm.state = stateFoodBuy THEN Len(buyChoices)
  ELSE IF mm.state = stateStudy THEN Len(mm.studyItems)
  ELSE IF mm.state = stateSubs THEN mm.subItems.len
  ELSE IF mm.state = stateFood THEN mm.foodItems.len
  ELSE IF mm.state = stateMenu THEN Len(menuChoices)
  ELSE 0

\* The limit of the "down" key.
DownLimit(mm) ==
  IF mm.state = stateFoodBuy THEN Len(buyChoices) - 1
  ELSE IF mm.state = stateStudy THEN Len(mm.studyItems) - 1
  ELSE IF mm.state = stateSubs THEN mm.subItems.len - 1
  ELSE IF mm.state = stateFood THEN mm.foodItems.len - 1
  ELSE IF mm.state = stateMenu THEN Len(menuChoices) - 1
  ELSE 0

\* The "d" key on a list: the element at the cursor is removed and the cursor
\* re-clamped.  The slice expressions panic when cursor+1 > len.
DeleteCursor(items, cursor) ==
  IF items.len = 0 THEN 0
  ELSE IF cursor >= items.len /\ items.len > 0 THEN items.len - 1
  ELSE cursor

UpdateDelete(mm) ==
  LET st == [mm EXCEPT !.statusMsg = StatusSyncingDeletion]
  IN  IF mm.state = stateFood /\ mm.foodItems.len > 0 THEN
        IF mm.cursor + 1 > mm.foodItems.len THEN Ret(st, PanicCmd)
        ELSE LET items == DeleteAt(mm.foodItems, mm.cursor)
             IN  Ret([st EXCEPT !.foodItems = items,
                                !.cursor = DeleteCursor(items, mm.cursor)],
                     syncCategoryCmd("Food", mm.catIDs["Food"], items))
      ELSE IF mm.state = stateSubs /\ mm.subItems.len > 0 THEN
        IF mm.cursor + 1 > mm.subItems.len THEN Ret(st, PanicCmd)
        ELSE LET items == DeleteAt(mm.subItems, mm.cursor)
             IN  Ret([st EXCEPT !.subItems = items,
                                !.cursor = DeleteCursor(items, mm.cursor)],
                     syncCategoryCmd("Subscriptions", mm.catIDs["Subscriptions"], items))
      ELSE Ret(st, NoCmd)

\* The cart keys on the food list; foodItems[cursor] panics past the length.
UpdateCart(mm, k) ==
  IF mm.state = stateFood /\ mm.foodItems.len > 0 THEN
    IF mm.cursor >= mm.foodItems.len THEN Ret(mm, PanicCmd)
    ELSE LET q == At(mm.foodItems, mm.cursor).CartQty
             q2 == IF k \in {"right", "+"} THEN q + 1
                   ELSE IF k \in {"left", "-"} THEN (IF q > 0 THEN q - 1 ELSE q)
                   ELSE (IF q = 0 THEN 1 ELSE 0)
         IN  Ret([mm EXCEPT !.foodItems.arr[mm.cursor + 1].CartQty = q2], NoCmd)
  ELSE Ret(mm, NoCmd)

\* Variant of Ingredients that names every item, in the cart or not.
Ingredients_All(items) == [i \in 1..Len(items) |-> items[i].Name]

Ingredients(items) ==
  LET RECURSIVE Pick(_)
      Pick(i) == IF i > Len(items) THEN <<>>
                 ELSE (IF items[i].CartQty > 0 THEN <<items[i].Name>> ELSE <<>>)
                        \o Pick(i + 1)
  IN  Pick(1)

\* Variant of MenuTarget with the second and third entries exchanged.
MenuTarget_Exchanged(cursor, state) ==
  IF cursor = 0 THEN stateFood
  ELSE IF cursor = 1 THEN stateStudy
  ELSE IF cursor = 2 THEN stateSubs
  ELSE state

\* The screen enter leads to from the menu entry at the cursor.
MenuTarget(cursor, state) ==
  IF cursor = 0 THEN stateFood
  ELSE IF cursor = 1 THEN stateSubs
  ELSE IF cursor = 2 THEN stateStudy
  ELSE state

\* The keys of the other screens.
\* Variant of UpdateScrape that starts the scrape without leaving the study
\* list.
UpdateScrape_Stay(mm) ==
  IF mm.state = stateStudy THEN Ret(mm, scrapeCanvasCmd) ELSE Ret(mm, NoCmd)

\* The s key: starts the scrape from the study list and moves to the loading
\* screen.
UpdateScrape(mm) ==
  IF mm.state = stateStudy
  THEN Ret([mm EXCEPT !.state = stateScrapingCanvas], scrapeCanvasCmd)
  ELSE Ret(mm, NoCmd)

UpdateNavKey(mm, k) ==
  IF k = "q" THEN Ret(mm, QuitCmd)
  ELSE IF k \in {"esc", "backspace"} THEN Ret(goBack(mm), NoCmd)
  ELSE IF k \in {"up", "k"} THEN
    Ret(IF mm.cursor > 0 THEN [mm EXCEPT !.cursor = @ - 1] ELSE mm, NoCmd)
  ELSE IF k \in {"down", "j"} THEN
    Ret(IF mm.cursor < DownLimit(mm) THEN [mm EXCEPT !.cursor = @ + 1] ELSE mm, NoCmd)
  ELSE IF k = "a" THEN
    IF mm.state = stateFood THEN
      Ret(initForm([mm EXCEPT !.state = stateAddFood, !.editIndex = -1],
                   stateAddFood, FALSE), NoCmd)
    ELSE IF mm.state = stateSubs THEN
      Ret(initForm([mm EXCEPT !.state = stateAddSub, !.editIndex = -1],
                   stateAddSub, FALSE), NoCmd)
    ELSE Ret(mm, NoCmd)
  ELSE IF k = "e" THEN
    IF mm.state = stateFood /\ mm.foodItems.len > 0 THEN
      IF mm.cursor >= mm.foodItems.len THEN Ret(mm, PanicCmd)
      ELSE Ret(initForm([mm EXCEPT !.state = stateAddFood, !.editIndex = mm.cursor],
                        stateAddFood, TRUE), NoCmd)
    ELSE IF mm.state = stateSubs /\ mm.subItems.len > 0 THEN
      IF mm.cursor >= mm.subItems.len THEN Ret(mm, PanicCmd)
      ELSE Ret(initForm([mm EXCEPT !.state = stateAddSub, !.editIndex = mm.cursor],
                        stateAddSub, TRUE), NoCmd)
    ELSE Ret(mm, NoCmd)
  ELSE IF k = "d" THEN UpdateDelete(mm)
  ELSE IF k = "s" THEN UpdateScrape(mm)
  ELSE IF k \in {"right", "+", "left", "-", " "} THEN UpdateCart(mm, k)
  ELSE IF k = "r" THEN
    IF mm.state = stateFood
    THEN Ret([mm EXCEPT !.state = stateFoodRecipe, !.isGenerating = TRUE,
                        !.generatedRecipe = RecipeConnecting],
             generateRecipeCmd(Ingredients(Elems(mm.foodItems))))
    ELSE Ret(mm, NoCmd)
  ELSE IF k = "c" THEN
    Ret(IF mm.state = stateFood THEN [mm EXCEPT !.state = stateFoodBuy, !.cursor = 0]
        ELSE mm, NoCmd)
  ELSE IF k = "enter" THEN
    IF mm.state = stateMenu THEN
      Ret([mm EXCEPT !.state = MenuTarget(mm.cursor, @), !.cursor = 0], NoCmd)
    ELSE IF mm.state = stateFoodBuy
    THEN Ret([mm EXCEPT !.state = stateProcessingBuy], processBuyCmd)
    ELSE Ret(mm, NoCmd)
  ELSE Ret(mm, NoCmd)

\* Variant of IsBlocking that blocks the checkout screen only.
IsBlocking_CheckoutOnly(st) == st = stateProcessingBuy

\* A key while the screen is one of the loading states.
IsBlocking(st) == st \in {stateProcessingBuy, stateScrapingCanvas}

\* Variant of IsForm that takes the food form for the only form.
IsForm_FoodOnly(st) == st = stateAddFood

\* A key while a form is open goes to the form.
IsForm(st) == st \in {stateAddFood, stateAddSub}

UpdateKey(mm, k) ==
  IF k = "ctrl+c" THEN Ret(mm, QuitCmd)
  ELSE IF IsBlocking(mm.state) THEN Ret(mm, NoCmd)
  ELSE IF IsForm(mm.state) THEN UpdateFormKey(mm, k)
  ELSE UpdateNavKey(mm, k)

\* model.Update: the new model and the command.
Update(mm, msg) ==
  IF msg.type = "dataFetched" THEN UpdateDataFetched(mm, msg.cats)
  ELSE IF msg.type = "syncSuccess" THEN UpdateSyncSuccess(mm)
  ELSE IF msg.type = "recipeGenerated" THEN UpdateRecipeGenerated(mm, msg.text)
  ELSE IF msg.type = "buyComplete" THEN UpdateBuyComplete(mm)
  ELSE IF msg.type = "canvasScraped" THEN UpdateCanvasScraped(mm, msg.items)
  ELSE IF msg.type = "err" THEN UpdateErr(mm, msg.text)
  ELSE UpdateKey(mm, msg.key)

\* -------------------------------------------------------------------- View
\* Variant of CartCost that multiplies by the stock.
CartCost_Stock(it) == it.Price * it.Amount

\* cost := item.Price * float64(item.CartQty), in hundredths
CartCost(it) == it.Price * it.CartQty

\* View on the checkout screen: the loop over the food items adds up the cost
\* of those in the cart and counts them; with a count above 0 the total to
\* pay is printed, the subtotal plus the shipping of the delivery choice at
\* the cursor.
ViewCheckout(mm) ==
  LET RECURSIVE Range(_, _, _)
      Range(i, total, count) ==
        IF i > mm.foodItems.len THEN [total |-> total, count |-> count]
        ELSE LET item == mm.foodItems.arr[i]
             IN  IF item.CartQty > 0
                 THEN Range(i + 1, total + CartCost(item), count + 1)
                 ELSE Range(i + 1, total, count)
      sum == Range(1, 0, 0)
      ship == IF mm.cursor = 0 THEN 300 ELSE 0
  IN  [count |-> sum.count,
       subtotal |-> sum.total,
       total |-> IF sum.count = 0 THEN <<>> ELSE FormatPrice(sum.total + ship)]

\* ------------------------------------------------------------ remote store
\* The store holds categories [id, name, items]; items are JSON documents.
Category(id, name, items) == [id |-> id, name |-> name, items |-> items]

CategoryIds == <<"c1", "c2", "c3", "c4">>

SeedFood == FoodJSON(FoodItem(<<"b">>, 200, 1, 1, 0))

SeedSub == SubJSON(SubItem(<<"n">>, 999, <<"d">>, "Yearly"))

InitServers ==
  {<<>>, <<Category(CategoryIds[1], "Food", <<SeedFood>>),
           Category(CategoryIds[2], "Subscriptions", <<SeedSub>>)>>}

\* POST /categories: a new category under a new id.
ServerCreate(srv, name, items) ==
  Append(srv, Category(CategoryIds[Len(srv) + 1], name, items))

\* PUT /categories/{id}: the content of that category is replaced.
ServerReplace(srv, id, name, items) ==
  [i \in 1..Len(srv) |-> IF srv[i].id = id THEN Category(id, name, items) ELSE srv[i]]

ServerHas(srv, id) == \E i \in 1..Len(srv) : srv[i].id = id

\* POST /scrapers/canvas: the store keeps what it scraped as the Academics
\* category, under the id that category already has if there is one.
ServerScrape(srv, items) ==
  IF \E i \in 1..Len(srv) : srv[i].name = "Academics"
  THEN LET k == CHOOSE i \in 1..Len(srv) :
                   srv[i].name = "Academics"
                   /\ \A j \in 1..(i - 1) : srv[j].name # "Academics"
       IN  [srv EXCEPT ![k].items = items]
  ELSE ServerCreate(srv, "Academics", items)

ScrapeResults == {<<StudyJSON(StudyItem(<<"h">>, <<"1">>))>>}

RECURSIVE Flatten(_)
Flatten(names) == IF names = <<>> THEN <<>> ELSE Head(names) \o <<",">> \o Flatten(Tail(names))

\* What the recipe service answers for a list of ingredients.
RecipeText(ingredients) == <<"Recipe: ">> \o Flatten(ingredients)

\* ---------------------------------------------------------------- the state
VARIABLES
  m,          \* the model the event loop holds
  tasks,      \* the commands in flight, in dispatch order
  server,     \* the remote store
  dispatched, \* how many commands were dispatched so far
  running,    \* "running", "quit" or "panic"
  profile,    \* the user's profile in this run
  mutated,    \* the categories whose collection a local mutation has changed
  log         \* what has happened in the run: per category name how many
              \* creates the store has accepted, and whether a command failed

vars == <<m, tasks, server, dispatched, running, profile, mutated, log>>

TypedRunes == {"a"}

\* What the user does in one run: the part of the program used (the screens
\* visited), the keys pressed there, and whether the run goes on to dispatch
\* commands.  A run follows one profile; the program is the same under all.
\*   nav     moves between the list screens and quits
\*   forms   opens, fills and leaves the forms; saves only an empty form
\*   food    adds, edits and deletes food items
\*   subs    adds, edits and deletes subscriptions
\*   study   scrapes the assignments
\*   recipe  fills the cart and asks for recipes
\*   buy     fills the cart and checks out
\*   filled  moves in a filled form, saves it or leaves it
\*   cart    fills the cart of a loaded list, looks at the checkout and asks
\*           for recipes
Profiles ==
  [nav |-> [screens |-> {stateMenu, stateFood, stateSubs, stateStudy, stateFoodBuy},
            keys |-> {"enter", "esc", "backspace", "up", "down", "k", "j", "c",
                      "q", "ctrl+c", "x"},
            dispatches |-> FALSE],
   forms |-> [screens |-> {stateMenu, stateFood, stateSubs, stateAddFood, stateAddSub},
              keys |-> {"enter", "esc", "down", "a", "e", "tab", "shift+tab", "up",
                        "left", "right"},
              dispatches |-> FALSE],
   food |-> [screens |-> {stateMenu, stateFood, stateAddFood},
             keys |-> {"enter", "up", "down", "a", "e", "d"},
             dispatches |-> TRUE],
   subs |-> [screens |-> {stateMenu, stateSubs, stateAddSub},
             keys |-> {"enter", "up", "down", "a", "e", "d"},
             dispatches |-> TRUE],
   study |-> [screens |-> {stateMenu, stateStudy, stateScrapingCanvas},
              keys |-> {"enter", "esc", "up", "down", "s"},
              dispatches |-> TRUE],
   recipe |-> [screens |-> {stateMenu, stateFood, stateFoodRecipe},
               keys |-> {"enter", "esc", "down", " ", "r"},
               dispatches |-> TRUE],
   buy |-> [screens |-> {stateMenu, stateFood, stateFoodBuy, stateProcessingBuy},
            keys |-> {"enter", "esc", "up", "down", " ", "right", "left", "c"},
            dispatches |-> TRUE],
   filled |-> [screens |-> {stateFood, stateSubs, stateAddFood, stateAddSub},
               keys |-> {"enter", "esc", "tab", "shift+tab", "up", "down",
                         "left", "right"},
               dispatches |-> TRUE],
   cart |-> [screens |-> {stateFood, stateFoodBuy, stateFoodRecipe},
             keys |-> {"up", "down", " ", "c", "r", "esc"},
             dispatches |-> TRUE]]

\* The profiles of a run that starts with the program; filled is the profile
\* of a run taken up with a form open and filled in, cart that of a run taken
\* up on the food list with a list loaded.
RunProfiles == DOMAIN Profiles \ {"filled", "cart"}

\* How many commands a run of the profile dispatches at most, the fetch of
\* Init included.
DispatchLimit(p) == IF Profiles[p].dispatches THEN MaxDispatch ELSE 1

\* The keys the user presses: those of the profile.  In a form the runes are
\* text: the user edits the name field only, with backspace and the runes of
\* TypedRunes, and uses left and right on the last field only, so the cursor
\* of the name input stays at the end of its text.
PressedKeys ==
  IF m.state \in {stateAddFood, stateAddSub}
  THEN (Profiles[profile].keys \ (RuneKeys \cup {"backspace", "left", "right"}))
         \cup (IF m.focusIndex = 0 THEN TypedRunes \cup {"backspace"} ELSE {})
         \cup (IF m.focusIndex = totalFields - 1
               THEN Profiles[profile].keys \cap {"left", "right"} ELSE {})
  ELSE Profiles[profile].keys

\* A command in flight.  A sync is "queued" until its goroutine has
\* serialised the slice it holds, then "sent", then "done" once the store has
\* answered; shared says the slice still has the collection's backing array,
\* view is what the slice shows, snap what it showed when dispatched.
Task(cmd, stage, shared, view) ==
  [kind |-> cmd.kind, name |-> cmd.name, catId |-> cmd.catId, items |-> cmd.items,
   ingredients |-> cmd.ingredients, stage |-> stage, shared |-> shared,
   view |-> view, snap |-> view, body |-> <<>>, resp |-> <<>>]

IsTask(cmd) == cmd.kind \in {"fetch", "sync", "recipe", "buy", "scrape"}

Docs(name, elems) ==
  IF name = "Food" THEN [i \in 1..Len(elems) |-> FoodJSON(elems[i])]
  ELSE [i \in 1..Len(elems) |-> SubJSON(elems[i])]

Collection(mm, name) == IF name = "Food" THEN mm.foodItems ELSE mm.subItems

\* What a slice of length n over the collection's array shows.
SliceView(mm, name, n) == Docs(name, SubSeq(Collection(mm, name).arr, 1, n))

NewTask(mm, cmd) ==
  IF cmd.kind = "sync"
  THEN Task(cmd, "queued", TRUE, SliceView(mm, cmd.name, cmd.items))
  ELSE Task(cmd, "sent", FALSE, <<>>)

\* The queued syncs after the event loop has turned old into new: a slice
\* that shares the collection's array shows what the loop wrote into it, and
\* stops sharing when the collection moves to a new array.
Rebase(t, old, new) ==
  IF t.kind = "sync" /\ t.stage = "queued" /\ t.shared
  THEN IF Cap(Collection(new, t.name)) = Cap(Collection(old, t.name))
       THEN [t EXCEPT !.view = SliceView(new, t.name, t.items)]
       ELSE [t EXCEPT !.shared = FALSE]
  ELSE t

RemoveAt(seq, i) == SubSeq(seq, 1, i - 1) \o SubSeq(seq, i + 1, Len(seq))

TextsBounded(old, new) ==
  \A i \in 1..Len(new.inputs) :
    IF Len(new.inputs[i]) <= MaxText THEN TRUE
    ELSE IF new.state # old.state THEN TRUE
    ELSE i <= Len(old.inputs) /\ Len(new.inputs[i]) <= Len(old.inputs[i])

CartsBounded(new) ==
  \A i \in 1..new.foodItems.len : new.foodItems.arr[i].CartQty <= MaxCart

\* The bounds of the model on what one step may build.  A checkout is started
\* only when the sync of its completion can still be dispatched.
Bounded(old, r) ==
  /\ r.m.foodItems.len <= MaxItems
  /\ r.m.subItems.len <= MaxItems
  /\ CartsBounded(r.m)
  /\ TextsBounded(old, r.m)
  /\ r.m.state \in Profiles[profile].screens
  /\ IF r.cmd.kind = "buy" THEN dispatched + 1 < DispatchLimit(profile)
     ELSE IF IsTask(r.cmd) THEN dispatched < DispatchLimit(profile)
     ELSE TRUE

\* One turn of the event loop: Update's result becomes the model and its
\* command is started; rest are the commands that stay in flight.  A sync is
\* returned by the handler that has just mutated the collection of its
\* category; mutated records the category when the collection changed.  Quit and
\* a panic end the process: its memory and its commands are gone, what is
\* left is the store.
Step(r, rest) ==
  /\ Bounded(m, r)
  /\ IF r.cmd \in {QuitCmd, PanicCmd}
     THEN /\ running' = (IF r.cmd = QuitCmd THEN "quit" ELSE "panic")
          /\ m' = initialModel
          /\ tasks' = <<>>
          /\ dispatched' = 0
          /\ mutated' = {}
     ELSE /\ running' = running
          /\ m' = r.m
          /\ tasks' = [i \in 1..Len(rest) |-> Rebase(rest[i], m, r.m)]
                        \o (IF IsTask(r.cmd) THEN <<NewTask(r.m, r.cmd)>> ELSE <<>>)
          /\ dispatched' = IF IsTask(r.cmd) THEN dispatched + 1 ELSE dispatched
          /\ mutated' = IF r.cmd.kind = "sync"
                           /\ Elems(Collection(r.m, r.cmd.name))
                                # Elems(Collection(m, r.cmd.name))
                        THEN mutated \cup {r.cmd.name}
                        ELSE mutated

Init ==
  /\ m = initialModel
  /\ tasks = <<NewTask(initialModel, fetchCategoriesCmd)>>
  /\ server \in InitServers
  /\ dispatched = 1
  /\ running = "running"
  /\ profile \in RunProfiles
  /\ mutated = {}
  /\ log = [created |-> [n \in CategoryNames |-> 0], failed |-> FALSE]

\* A key event reaches Update.
KeyPress ==
  /\ running = "running"
  /\ \E k \in PressedKeys : Step(Update(m, KeyMsg(k)), tasks)
  /\ UNCHANGED <<server, profile, log>>

\* The goroutine of a sync command serialises its slice.
Marshal(i) ==
  /\ running = "running"
  /\ tasks[i].kind = "sync" /\ tasks[i].stage = "queued"
  /\ tasks' = [tasks EXCEPT ![i].stage = "sent", ![i].body = tasks[i].view,
                            ![i].shared = FALSE]
  /\ UNCHANGED <<m, server, dispatched, running, profile, mutated, log>>

\* The store answers a fetch with the categories it holds.
ServeFetch(i) ==
  /\ running = "running"
  /\ tasks[i].kind = "fetch" /\ tasks[i].stage = "sent"
  /\ tasks' = [tasks EXCEPT ![i].stage = "done", ![i].resp = server]
  /\ UNCHANGED <<m, server, dispatched, running, profile, mutated, log>>

\* The store applies a sync: a create without an id, else an update.
ServeSync(i) ==
  /\ running = "running"
  /\ tasks[i].kind = "sync" /\ tasks[i].stage = "sent"
  /\ IF SyncMethod(tasks[i].catId) = "POST"
     THEN /\ Len(server) < MaxCats
          /\ server' = ServerCreate(server, tasks[i].name, tasks[i].body)
          /\ log' = [log EXCEPT !.created[tasks[i].name] = @ + 1]
     ELSE /\ ServerHas(server, tasks[i].catId)
          /\ server' = ServerReplace(server, tasks[i].catId, tasks[i].name, tasks[i].body)
          /\ log' = log
  /\ tasks' = [tasks EXCEPT ![i].stage = "done"]
  /\ UNCHANGED <<m, dispatched, running, profile, mutated>>

DeliverDataFetched(i) ==
  /\ running = "running"
  /\ tasks[i].kind = "fetch" /\ tasks[i].stage = "done"
  /\ Step(Update(m, dataFetchedMsg(tasks[i].resp)), RemoveAt(tasks, i))
  /\ UNCHANGED <<server, profile, log>>

DeliverSyncSuccess(i) ==
  /\ running = "running"
  /\ tasks[i].kind = "sync" /\ tasks[i].stage = "done"
  /\ Step(Update(m, syncSuccessMsg), RemoveAt(tasks, i))
  /\ UNCHANGED <<server, profile, log>>

DeliverRecipe(i) ==
  /\ running = "running"
  /\ tasks[i].kind = "recipe"
  /\ Step(Update(m, recipeGeneratedMsg(RecipeText(tasks[i].ingredients))),
          RemoveAt(tasks, i))
  /\ UNCHANGED <<server, profile, log>>

DeliverBuyComplete(i) ==
  /\ running = "running"
  /\ tasks[i].kind = "buy"
  /\ Step(Update(m, buyCompleteMsg), RemoveAt(tasks, i))
  /\ UNCHANGED <<server, profile, log>>

\* The scrape answers: the store has kept the items, the program gets them.
DeliverCanvasScraped(i) ==
  /\ running = "running"
  /\ tasks[i].kind = "scrape"
  /\ \E docs \in ScrapeResults :
       /\ Len(ServerScrape(server, docs)) <= MaxCats
       /\ server' = ServerScrape(server, docs)
       /\ Step(Update(m, canvasScrapedMsg(DecodeStudy(docs))), RemoveAt(tasks, i))
  /\ UNCHANGED <<profile, log>>

\* The error a command in flight can end with.
ErrOf(t) == IF t.kind = "sync" /\ t.stage = "sent" THEN "Sync failed" ELSE "EOF"

CanFail(t) == t.kind \in {"fetch", "sync", "recipe", "scrape"} /\ t.stage # "queued"

\* The messages the commands in flight can send now, and every event that
\* can reach Update now: a key, or one of those messages.
ResultsOf(t) ==
  (IF t.kind = "fetch" /\ t.stage = "done" THEN {dataFetchedMsg(t.resp)} ELSE {})
  \cup (IF t.kind = "sync" /\ t.stage = "done" THEN {syncSuccessMsg} ELSE {})
  \cup (IF t.kind = "recipe"
        THEN {recipeGeneratedMsg(RecipeText(t.ingredients))} ELSE {})
  \cup (IF t.kind = "buy" THEN {buyCompleteMsg} ELSE {})
  \cup (IF t.kind = "scrape"
        THEN {canvasScrapedMsg(DecodeStudy(docs)) : docs \in ScrapeResults} ELSE {})
  \cup (IF CanFail(t) THEN {errMsg(ErrOf(t))} ELSE {})

Events ==
  {KeyMsg(k) : k \in Keys} \cup UNION {ResultsOf(tasks[i]) : i \in 1..Len(tasks)}

DeliverErr(i) ==
  /\ running = "running"
  /\ CanFail(tasks[i])
  /\ Step(Update(m, errMsg(ErrOf(tasks[i]))), RemoveAt(tasks, i))
  /\ log' = [log EXCEPT !.failed = TRUE]
  /\ UNCHANGED <<server, profile>>

Next ==
  \/ KeyPress
  \/ \E i \in 1..Len(tasks) : Marshal(i)
  \/ \E i \in 1..Len(tasks) : ServeFetch(i)
  \/ \E i \in 1..Len(tasks) : ServeSync(i)
  \/ \E i \in 1..Len(tasks) : DeliverDataFetched(i)
  \/ \E i \in 1..Len(tasks) : DeliverSyncSuccess(i)
  \/ \E i \in 1..Len(tasks) : DeliverRecipe(i)
  \/ \E i \in 1..Len(tasks) : DeliverBuyComplete(i)
  \/ \E i \in 1..Len(tasks) : DeliverCanvasScraped(i)
  \/ \E i \in 1..Len(tasks) : DeliverErr(i)

Spec == Init /\ [][Next]_vars

\* The checkout task sleeps and returns its message, which the event loop
\* takes up: a checkout in flight is eventually completed.
LiveSpec ==
  Init /\ [][Next]_vars /\ WF_vars(\E i \in 1..Len(tasks) : DeliverBuyComplete(i))

\* ------------------------------------------------------- the filled forms
\* The forms as functions of what was typed: runs that start with a form
\* open, over a collection of FormFoodLists or FormSubLists, on a new item or
\* on one of the collection, with the fields as initForm left them or filled
\* with texts of the sets below, and the focus on any field.
FormFoodLists ==
  {<<>>,
   <<FoodItem(<<"b">>, 200, 1, 0, 1)>>,
   <<FoodItem(<<"b">>, 200, 1, 0, 1), FoodItem(<<"c">>, 150, 2, 2, 0)>>}

FormSubLists == {<<>>, <<SubItem(<<"n">>, 999, <<"d">>, "Yearly")>>}

NameTexts == {<<>>, <<"a">>}
PriceTexts == {<<>>, <<"2">>, <<"1", ".", "5">>, <<"-", "1">>, <<"x">>}
AmountTexts ==
  {<<>>, <<"1">>, <<"2">>, <<"5">>, <<"-", "1">>, <<"x">>,
   <<"9", "9", "9", "9", "9", "9", "9", "9", "9", "9", "9">>}
ThreshTexts == {<<>>, <<"0">>, <<"2">>, <<"-", "2">>, <<"x">>}
DateTexts == {<<>>, <<"d">>}

FilledInputs(kind) ==
  IF kind = stateAddFood
  THEN {<<n, p, a, t>> : n \in NameTexts, p \in PriceTexts,
                         a \in AmountTexts, t \in ThreshTexts}
  ELSE {<<n, p, d>> : n \in NameTexts, p \in PriceTexts, d \in DateTexts}

\* A list as a slice whose array it fills.
SliceOf(list) == [arr |-> list, len |-> Len(list)]

FormInit ==
  /\ \E kind \in {stateAddFood, stateAddSub} :
       \E list \in (IF kind = stateAddFood THEN FormFoodLists ELSE FormSubLists) :
         \E e \in -1..(Len(list) - 1), f \in 0..(totalFields - 1) :
           LET loaded == [initialModel EXCEPT
                            !.statusMsg = StatusLoaded,
                            !.foodItems = IF kind = stateAddFood THEN SliceOf(list)
                                          ELSE NilSlice,
                            !.subItems = IF kind = stateAddSub THEN SliceOf(list)
                                         ELSE NilSlice]
               opened == initForm([loaded EXCEPT !.state = kind, !.editIndex = e],
                                  kind, e >= 0)
           IN  \E texts \in {opened.inputs} \cup FilledInputs(kind) :
                 m = [opened EXCEPT !.inputs = texts, !.focusIndex = f]
  /\ tasks = <<>>
  /\ server = <<>>
  /\ dispatched = 0
  /\ running = "running"
  /\ profile = "filled"
  /\ mutated = {}
  /\ log = [created |-> [n \in CategoryNames |-> 0], failed |-> FALSE]

FormSpec == FormInit /\ [][KeyPress]_vars

\* ------------------------------------------------------------ loaded carts
\* The checkout screen of View as a function of the food list: the run is
\* taken up on the food list with a list of up to two items loaded, of the
\* prices, stocks and cart quantities below.
CartPrices == {200, 500}
CartStocks == {0, 2}

CartFoodLists ==
  LET first == {FoodItem(<<"a">>, p, a, 0, q) :
                  p \in CartPrices, a \in CartStocks, q \in 0..MaxCart}
      second == {FoodItem(<<"b">>, p, a, 0, q) :
                   p \in CartPrices, a \in CartStocks, q \in 0..MaxCart}
  IN  {<<>>} \cup {<<x>> : x \in first} \cup {<<x, y>> : x \in first, y \in second}

CartInit ==
  /\ \E list \in CartFoodLists :
       m = [initialModel EXCEPT !.state = stateFood,
                                !.statusMsg = StatusLoaded,
                                !.foodItems = SliceOf(list)]
  /\ tasks = <<>>
  /\ server = <<>>
  /\ dispatched = 0
  /\ running = "running"
  /\ profile = "cart"
  /\ mutated = {}
  /\ log = [created |-> [n \in CategoryNames |-> 0], failed |-> FALSE]

CartSpec == CartInit /\ [][KeyPress]_vars

\* ------------------------------------------------------------------ claims
\* C1: confirming (enter) on the last field of the food form while the name
\* field is empty is a no-op: the collection is unchanged, no sync is
\* dispatched, and the screen stays FoodForm with the field values and the
\* focus index unchanged.
C1_EmptyNameSaveKeepsForm ==
  (m.state = stateAddFood /\ m.focusIndex = totalFields - 1 /\ m.inputs[1] = <<>>)
    => Update(m, KeyMsg("enter")) = Ret(m, NoCmd)

\* C2: in every reachable state, on Menu, FoodList, FoodCheckout,
\* Subscriptions and Academics the cursor is within [0, len - 1] of the
\* active collection, or 0 when that collection is empty.
C2_CursorInRange ==
  LET n == IF m.state = stateMenu THEN Len(menuChoices)
           ELSE IF m.state = stateFood THEN m.foodItems.len
           ELSE IF m.state = stateFoodBuy THEN Len(buyChoices)
           ELSE IF m.state = stateSubs THEN m.subItems.len
           ELSE Len(m.studyItems)
  IN  m.state \in {stateMenu, stateFood, stateFoodBuy, stateSubs, stateStudy}
        => IF n = 0 THEN m.cursor = 0 ELSE m.cursor >= 0 /\ m.cursor <= n - 1

\* C3: once a local mutation has been applied to the food or subscription
\* collection, no async result that arrives afterwards (a fetch result or a
\* failure) changes that collection.
C3_AsyncResultsKeepMutations ==
  \A i \in 1..Len(tasks) : \A n \in mutated :
    /\ (tasks[i].kind = "fetch" /\ tasks[i].stage = "done")
         => Elems(Collection(Update(m, dataFetchedMsg(tasks[i].resp)).m, n))
              = Elems(Collection(m, n))
    /\ CanFail(tasks[i])
         => Elems(Collection(Update(m, errMsg(ErrOf(tasks[i]))).m, n))
              = Elems(Collection(m, n))

\* C4: once the scrape task dispatched by `s` has resolved, with items or
\* with a failure, the screen is back on Academics: it is AcademicsSyncing
\* only while that task is unresolved.
C4_SyncingOnlyWhileScrapeUnresolved ==
  m.state = stateScrapingCanvas => \E i \in 1..Len(tasks) : tasks[i].kind = "scrape"

\* C5: while the screen is FoodCheckoutProcessing or AcademicsSyncing, every
\* key other than the hard-quit key leaves the whole session unchanged and
\* dispatches no task.
C5_BlockingScreensIgnoreKeys ==
  m.state \in {stateProcessingBuy, stateScrapingCanvas}
    => \A k \in Keys \ {"ctrl+c"} : Update(m, KeyMsg(k)) = Ret(m, NoCmd)

\* C5 witness: the checkout is being processed, with items in the list.
C5_Witness ==
  /\ m.state = stateProcessingBuy
  /\ m.foodItems.len > 0
  /\ \E i \in 1..Len(tasks) : tasks[i].kind = "buy"

C7_NonRecipeFailureKeepsRecipeText ==
  \A i \in 1..Len(tasks) :
    (CanFail(tasks[i]) /\ tasks[i].kind # "recipe")
      => Update(m, errMsg(ErrOf(tasks[i]))).m.generatedRecipe = m.generatedRecipe

\* C8: the payload of every sync is the collection as it was immediately
\* after the mutation that dispatched it.
C8_SyncPayloadIsCollectionAtMutation ==
  \A i \in 1..Len(tasks) :
    (tasks[i].kind = "sync" /\ tasks[i].stage # "queued")
      => tasks[i].body = tasks[i].snap

\* C9: a sync-success result dispatches exactly one fetch, and a fetch result
\* makes the stored id of every category it contains the id it carries (the
\* last one, when it carries a name twice); the other ids stay.
C9_SyncSuccessFetchesAndIdsStored ==
  \A i \in 1..Len(tasks) :
    /\ (tasks[i].kind = "sync" /\ tasks[i].stage = "done")
         => Update(m, syncSuccessMsg).cmd = fetchCategoriesCmd
    /\ (tasks[i].kind = "fetch" /\ tasks[i].stage = "done")
         => LET cats == tasks[i].resp
                after == Update(m, dataFetchedMsg(cats)).m
            IN  /\ \A j \in 1..Len(cats) :
                     (\A k \in (j + 1)..Len(cats) : cats[k].name # cats[j].name)
                       => after.catIDs[cats[j].name] = cats[j].id
                /\ \A n \in CategoryNames :
                     (\A j \in 1..Len(cats) : cats[j].name # n)
                       => after.catIDs[n] = m.catIDs[n]

\* C9 witness: after a sync succeeded, a fetch has been answered with a
\* category whose id is not the stored one.
C9_Witness ==
  /\ m.statusMsg = StatusSaved
  /\ \E i \in 1..Len(tasks) :
       /\ tasks[i].kind = "fetch" /\ tasks[i].stage = "done"
       /\ \E j \in 1..Len(tasks[i].resp) :
            m.catIDs[tasks[i].resp[j].name] # tasks[i].resp[j].id

\* C10: a sync is a create (no id) exactly when no id is stored for its
\* category name when it is dispatched, and else an update carrying the
\* stored id.
C10_CreateIffNoStoredId ==
  \A msg \in {KeyMsg(k) : k \in Keys} \cup {buyCompleteMsg} :
    LET r == Update(m, msg)
    IN  r.cmd.kind = "sync" =>
          /\ r.cmd.catId = m.catIDs[r.cmd.name]
          /\ (SyncMethod(r.cmd.catId) = "POST") <=> (m.catIDs[r.cmd.name] = "")

\* C10 witness: an update carrying the stored id is in flight, and a further
\* mutation is about to dispatch another.
C10_Witness ==
  /\ m.state = stateFood /\ m.foodItems.len > 0 /\ m.catIDs["Food"] # ""
  /\ \E i \in 1..Len(tasks) :
       tasks[i].kind = "sync" /\ tasks[i].catId = m.catIDs["Food"]

\* C11 (as stated): saving the food form with a non-empty name, threshold
\* t > 0 and entered stock a <= t stores stock a + 3 and announces the
\* auto-renew; with t = 0 or a > t the stored stock is exactly a and the
\* status is the plain syncing message, for every entered stock a.
C11_AutoRenewOnSave_AnyStock ==
  (m.state = stateAddFood /\ m.focusIndex = totalFields - 1 /\ m.inputs[1] # <<>>)
    => \A a \in -2..5, t \in 0..3 :
         (m.inputs[3] = Itoa(a) /\ m.inputs[4] = Itoa(t))
           => LET r == Update(m, KeyMsg("enter"))
                  i == IF m.editIndex >= 0 THEN m.editIndex ELSE m.foodItems.len
                  stored == At(r.m.foodItems, i)
              IN  IF t > 0 /\ a <= t
                  THEN /\ stored.Amount = a + 3
                       /\ r.m.statusMsg = AutoRenewMsg(m.inputs[1])
                  ELSE /\ stored.Amount = a
                       /\ r.m.statusMsg = StatusSyncing

\* C11 (amended): the same for an entered stock a >= 0; a negative entered
\* stock counts as 0 (so it is topped up to 3 under a threshold t > 0 and
\* stored as 0 otherwise).
C11_AutoRenewOnSave ==
  (m.state = stateAddFood /\ m.focusIndex = totalFields - 1 /\ m.inputs[1] # <<>>)
    => \A a \in -2..5, t \in 0..3 :
         (m.inputs[3] = Itoa(a) /\ m.inputs[4] = Itoa(t))
           => LET r == Update(m, KeyMsg("enter"))
                  i == IF m.editIndex >= 0 THEN m.editIndex ELSE m.foodItems.len
                  stored == At(r.m.foodItems, i)
                  a0 == IF a < 0 THEN 0 ELSE a
              IN  IF t > 0 /\ a0 <= t
                  THEN /\ stored.Amount = a0 + 3
                       /\ r.m.statusMsg = AutoRenewMsg(m.inputs[1])
                  ELSE /\ stored.Amount = a0
                       /\ r.m.statusMsg = StatusSyncing

\* C11 witness: stock 1 under threshold 2 was saved as stock 4, with the
\* auto-renew announcement.
C11_Witness ==
  /\ m.state = stateFood
  /\ m.inputs[3] = <<"1">> /\ m.inputs[4] = <<"2">>
  /\ m.statusMsg = AutoRenewMsg(m.inputs[1])
  /\ \E i \in 1..m.foodItems.len :
       m.foodItems.arr[i].Amount = 4 /\ m.foodItems.arr[i].RenewThreshold = 2

\* C12: every food item's cart quantity is >= 0 in every reachable state, and
\* a checkout completion drains every cart: afterwards every cart quantity is
\* 0 and each item's stock has grown by exactly the cart quantity it had; the
\* one completion of a checkout task is its only result.
C12_CartDrainedByCheckout ==
  /\ \A i \in 1..m.foodItems.len : m.foodItems.arr[i].CartQty >= 0
  /\ \A j \in 1..Len(tasks) :
       tasks[j].kind = "buy" =>
         LET after == Update(m, buyCompleteMsg).m.foodItems
         IN  /\ ~CanFail(tasks[j])
             /\ after.len = m.foodItems.len
             /\ \A i \in 1..m.foodItems.len :
                  after.arr[i] = [m.foodItems.arr[i] EXCEPT
                                    !.Amount = @ + m.foodItems.arr[i].CartQty,
                                    !.CartQty = 0]

\* C12 witness: a checkout has completed over an item with one unit in the
\* cart, whose stock went from 1 to 2.
C12_Witness ==
  /\ m.statusMsg = StatusOrderPlaced
  /\ m.foodItems.len > 0
  /\ m.foodItems.arr[1].Amount = 2 /\ m.foodItems.arr[1].CartQty = 0

\* C13: confirming on FoodCheckout moves to FoodCheckoutProcessing and
\* dispatches exactly one checkout task; its completion makes the screen
\* FoodList with cursor 0, folds the carts into the stock and dispatches one
\* Food sync; and, the checkout task being resolved eventually, every
\* confirmed checkout returns to FoodList (unless the program is ended first).
C13_CheckoutReturnsToFoodList ==
  /\ [](/\ m.state = stateFoodBuy
             => Update(m, KeyMsg("enter"))
                  = Ret([m EXCEPT !.state = stateProcessingBuy], processBuyCmd)
        /\ \A j \in 1..Len(tasks) :
             tasks[j].kind = "buy" =>
               LET r == Update(m, buyCompleteMsg)
               IN  /\ r.m.state = stateFood /\ r.m.cursor = 0
                   /\ \A i \in 1..m.foodItems.len :
                        /\ r.m.foodItems.arr[i].CartQty = 0
                        /\ r.m.foodItems.arr[i].Amount
                             = m.foodItems.arr[i].Amount + m.foodItems.arr[i].CartQty
                   /\ r.cmd = syncCategoryCmd("Food", m.catIDs["Food"], r.m.foodItems))
  /\ (m.state = stateProcessingBuy) ~> (m.state = stateFood \/ running # "running")

\* C13 witness: a checkout has completed: the screen is FoodList, cursor 0,
\* and the Food sync of the completion is in flight.
C13_Witness ==
  /\ m.state = stateFood /\ m.cursor = 0
  /\ m.statusMsg = StatusOrderPlaced
  /\ \E j \in 1..Len(tasks) : tasks[j].kind = "sync" /\ tasks[j].name = "Food"

\* C14: d on FoodList or Subscriptions with a non-empty collection and an
\* in-range cursor removes exactly the element at the cursor (the others keep
\* their order, the length drops by one), leaves the cursor within
\* [0, max(0, new length - 1)], 0 when the collection became empty, and
\* dispatches the sync of that collection.
C14_DeleteRemovesElementAtCursor ==
  \A n \in {"Food", "Subscriptions"} :
    LET old == Collection(m, n)
    IN  (m.state = (IF n = "Food" THEN stateFood ELSE stateSubs)
           /\ old.len > 0 /\ m.cursor >= 0 /\ m.cursor < old.len)
          => LET r == Update(m, KeyMsg("d"))
                 new == Collection(r.m, n)
             IN  /\ Elems(new) = RemoveAt(Elems(old), m.cursor + 1)
                 /\ new.len = old.len - 1
                 /\ r.m.cursor >= 0
                 /\ r.m.cursor <= (IF new.len = 0 THEN 0 ELSE new.len - 1)
                 /\ r.m.state = m.state
                 /\ r.cmd = syncCategoryCmd(n, m.catIDs[n], new)

\* C14 witness: the first of two food items was deleted (the second was
\* moved down in the array); the sync of the deletion is in flight.
C14_Witness ==
  /\ m.state = stateFood /\ m.statusMsg = StatusSyncingDeletion
  /\ m.foodItems.len = 1 /\ Cap(m.foodItems) = 2
  /\ m.foodItems.arr[1] = m.foodItems.arr[2]
  /\ \E j \in 1..Len(tasks) :
       tasks[j].kind = "sync" /\ tasks[j].name = "Food" /\ tasks[j].items = 1

\* C15: on FoodList the cart keys (space, right/+, left/-) change only the
\* cart quantity of the item at the cursor, leave everything else unchanged
\* and dispatch nothing; space twice on an item whose cart quantity is 0
\* takes it 0 -> 1 -> 0 and gives the original session back.
C15_CartKeysChangeOnlyCartAtCursor ==
  m.state = stateFood =>
    /\ \A k \in {" ", "right", "+", "left", "-"} :
         LET r == Update(m, KeyMsg(k))
         IN  /\ r.cmd = NoCmd
             /\ IF m.foodItems.len = 0 THEN r.m = m
                ELSE r.m = [m EXCEPT !.foodItems.arr[m.cursor + 1].CartQty =
                                        r.m.foodItems.arr[m.cursor + 1].CartQty]
    /\ (m.foodItems.len > 0 /\ Update(m, KeyMsg(" ")).cmd = NoCmd)
         => (At(m.foodItems, m.cursor).CartQty = 0
               => LET once == Update(m, KeyMsg(" ")).m
                  IN  /\ At(once.foodItems, m.cursor).CartQty = 1
                      /\ Update(once, KeyMsg(" ")) = Ret(m, NoCmd))

\* C16: form state (field list, focus index, edit target) exists if and only
\* if the screen is FoodForm or SubscriptionForm: on a form screen the field
\* list is the form's, and on every other screen nothing is left of a form
\* that was closed.
C16_FormStateOnlyInForms ==
  IF m.state \in {stateAddFood, stateAddSub}
  THEN /\ Len(m.inputs) = (IF m.state = stateAddFood THEN 4 ELSE 3)
       /\ m.focusIndex \in 0..(totalFields - 1)
       /\ m.editIndex >= -1
  ELSE /\ m.inputs = <<>>
       /\ m.focusIndex = 0
       /\ m.editIndex = -1

C18_ScreenChangeResetsCursor ==
  LET lists == {stateMenu, stateFood, stateFoodBuy, stateSubs, stateStudy}
      results(t) ==
        (IF t.kind = "fetch" /\ t.stage = "done" THEN {dataFetchedMsg(t.resp)} ELSE {})
        \cup (IF t.kind = "sync" /\ t.stage = "done" THEN {syncSuccessMsg} ELSE {})
        \cup (IF t.kind = "recipe"
              THEN {recipeGeneratedMsg(RecipeText(t.ingredients))} ELSE {})
        \cup (IF t.kind = "buy" THEN {buyCompleteMsg} ELSE {})
        \cup (IF t.kind = "scrape"
              THEN {canvasScrapedMsg(DecodeStudy(docs)) : docs \in ScrapeResults}
              ELSE {})
        \cup (IF CanFail(t) THEN {errMsg(ErrOf(t))} ELSE {})
      events == {KeyMsg(k) : k \in Keys}
                  \cup UNION {results(tasks[i]) : i \in 1..Len(tasks)}
  IN  \A msg \in events :
        LET r == Update(m, msg)
        IN  (r.m.state # m.state /\ r.m.state \in lists) => r.m.cursor = 0

\* C18 witness: the scrape has ended on the Academics screen, which was
\* entered from the third line of the menu, and the cursor is 0.
C18_Witness ==
  /\ m.state = stateStudy /\ m.cursor = 0
  /\ m.statusMsg = StatusCanvasDone

\* C19: on a list screen with the cursor in [0, max(0, len - 1)] of the active
\* collection, up and down change nothing but the cursor and keep it in that
\* range: up at 0 and down at the last index leave it unchanged, every other
\* up or down moves it by exactly one, and over an empty collection it stays 0.
\* As these keys leave the collection alone, the same holds of every sequence
\* of them.
C19_UpDownKeepCursorInRange ==
  LET n == IF m.state = stateMenu THEN Len(menuChoices)
           ELSE IF m.state = stateFood THEN m.foodItems.len
           ELSE IF m.state = stateFoodBuy THEN Len(buyChoices)
           ELSE IF m.state = stateSubs THEN m.subItems.len
           ELSE Len(m.studyItems)
      last == IF n = 0 THEN 0 ELSE n - 1
  IN  (/\ m.state \in {stateMenu, stateFood, stateFoodBuy, stateSubs, stateStudy}
       /\ m.cursor >= 0 /\ m.cursor <= last)
        => /\ \A k \in {"up", "k"} :
                Update(m, KeyMsg(k))
                  = Ret([m EXCEPT !.cursor = IF m.cursor = 0 THEN 0 ELSE m.cursor - 1],
                        NoCmd)
           /\ \A k \in {"down", "j"} :
                Update(m, KeyMsg(k))
                  = Ret([m EXCEPT !.cursor = IF m.cursor = last THEN last
                                             ELSE m.cursor + 1],
                        NoCmd)

\* C19 witness: the cursor has been moved down to the last of two
\* subscriptions.
C19_Witness ==
  /\ m.state = stateSubs
  /\ m.subItems.len = 2
  /\ m.cursor = 1

\* C20: the focus index is always in [0, 3], and in both forms it moves
\* cyclically over the 4 logical fields: tab and down, and enter on a field
\* other than the last, advance it by one, from 3 to 0; shift+tab and up move
\* it back by one, from 0 to 3.  Nothing else of the session changes and no
\* command is returned.
C20_FocusCycles ==
  LET f == m.focusIndex
      focused(g) == Ret([m EXCEPT !.focusIndex = g], NoCmd)
  IN  /\ f \in 0..3
      /\ m.state \in {stateAddFood, stateAddSub}
           => /\ \A k \in {"tab", "down"} :
                   Update(m, KeyMsg(k)) = focused(IF f = 3 THEN 0 ELSE f + 1)
              /\ \A k \in {"shift+tab", "up"} :
                   Update(m, KeyMsg(k)) = focused(IF f = 0 THEN 3 ELSE f - 1)
              /\ f # 3 => Update(m, KeyMsg("enter")) = focused(f + 1)

\* C20 witness: in the subscription form the focus is on the fourth field,
\* the billing cycle, which has no text input.
C20_Witness ==
  /\ m.state = stateAddSub
  /\ m.focusIndex = 3
  /\ Len(m.inputs) = 3

\* C21: the cycle selector clamps: with the selector focused (focus index 3
\* of the subscription form), left at index 0 and right at the last index
\* leave it where it is, and otherwise left and right move it by one, changing
\* nothing else.  The selected-cycle index is always an index of
\* subCycleChoices.  While the form is open no event changes it unless the
\* selector is focused; outside the form it is set only by opening the
\* form, which builds the form's state.
C21_CycleSelectorClamps ==
  LET c == m.subCycleChoice
      last == Len(subCycleChoices) - 1
      selecting == m.state = stateAddSub /\ m.focusIndex = totalFields - 1
  IN  /\ c \in 0..last
      /\ selecting
           => /\ Update(m, KeyMsg("left"))
                   = Ret([m EXCEPT !.subCycleChoice = IF c = 0 THEN 0 ELSE c - 1], NoCmd)
              /\ Update(m, KeyMsg("right"))
                   = Ret([m EXCEPT !.subCycleChoice = IF c = last THEN last ELSE c + 1],
                         NoCmd)
      /\ \A msg \in Events :
           LET r == Update(m, msg)
           IN  r.m.subCycleChoice # c
                 => \/ selecting
                    \/ m.state = stateSubs /\ r.m.state = stateAddSub

\* C21 witness: the selector is focused and stands on the last cycle.
C21_Witness ==
  /\ m.state = stateAddSub
  /\ m.focusIndex = totalFields - 1
  /\ m.subCycleChoice = Len(subCycleChoices) - 1

\* C22: in a form, enter with the focus on field 0, 1 or 2 advances the focus
\* by one and does nothing else: no save, no command, the same screen and
\* collections.  Enter with the focus on field 3 attempts the save: with an
\* empty name nothing is stored or sent; with a name (and, when editing, an
\* edit target inside the collection) the item is appended or replaced, one
\* sync of the form's category is returned, and the screen is the form's back
\* target, FoodList for the food form and Subscriptions for the other.
C22_EnterAdvancesOrSaves ==
  LET food == m.state = stateAddFood
      name == IF food THEN "Food" ELSE "Subscriptions"
      before == Collection(m, name)
      r == Update(m, KeyMsg("enter"))
      after == Collection(r.m, name)
  IN  m.state \in {stateAddFood, stateAddSub} =>
        IF m.focusIndex # totalFields - 1
        THEN r = Ret([m EXCEPT !.focusIndex = m.focusIndex + 1], NoCmd)
        ELSE IF m.inputs[1] = <<>>
        THEN /\ r.cmd = NoCmd
             /\ r.m.foodItems = m.foodItems /\ r.m.subItems = m.subItems
        ELSE IF m.editIndex >= before.len THEN TRUE
        ELSE /\ r.m.state = (IF food THEN stateFood ELSE stateSubs)
             /\ r.cmd = syncCategoryCmd(name, m.catIDs[name], after)
             /\ after.len = (IF m.editIndex >= 0 THEN before.len ELSE before.len + 1)
             /\ At(after, IF m.editIndex >= 0 THEN m.editIndex ELSE before.len).Name
                  = m.inputs[1]
             /\ Collection(r.m, IF food THEN "Subscriptions" ELSE "Food")
                  = Collection(m, IF food THEN "Subscriptions" ELSE "Food")

\* C22 witness: a subscription has just been saved from the form: the list
\* has grown to two, the save's status is shown on Subscriptions and its sync
\* is in flight.
C22_Witness ==
  /\ m.state = stateSubs
  /\ m.statusMsg = StatusSyncing
  /\ m.subItems.len = 2
  /\ \E i \in 1..Len(tasks) : tasks[i].kind = "sync" /\ tasks[i].name = "Subscriptions"

\* C23: the total printed on FoodCheckout is the sum, over the food items
\* whose cart quantity is above 0, of unit price times cart quantity, plus
\* 3.00 with the delivery cursor on 0 and plus nothing with it on 1, printed
\* with two decimals; the stock amounts do not enter it.  The cart of
\* 2.00 x 3 and 5.00 x 1 with delivery gives 14.00.
C23_CheckoutTotal ==
  LET items == Elems(m.foodItems)
      inCart == {i \in 1..Len(items) : items[i].CartQty > 0}
      RECURSIVE Sum(_)
      Sum(S) == IF S = {} THEN 0
                ELSE LET i == CHOOSE x \in S : TRUE
                     IN  items[i].Price * items[i].CartQty + Sum(S \ {i})
      restocked(a) ==
        [m EXCEPT !.foodItems.arr = [i \in 1..Cap(m.foodItems) |->
                                       [m.foodItems.arr[i] EXCEPT !.Amount = a]]]
      example == [initialModel EXCEPT
                    !.state = stateFoodBuy,
                    !.foodItems = SliceOf(<<FoodItem(<<"a">>, 200, 7, 0, 3),
                                            FoodItem(<<"b">>, 500, 0, 0, 1),
                                            FoodItem(<<"c">>, 900, 4, 0, 0)>>)]
  IN  /\ m.state = stateFoodBuy =>
           /\ m.cursor \in {0, 1}
           /\ inCart # {} =>
                ViewCheckout(m).total
                  = FormatPrice(Sum(inCart) + (IF m.cursor = 0 THEN 300 ELSE 0))
           /\ \A a \in {0, 9} : ViewCheckout(restocked(a)).total = ViewCheckout(m).total
      /\ ViewCheckout(example).total = <<"1", "4", ".", "0", "0">>
      /\ ViewCheckout([example EXCEPT !.cursor = 1]).total = <<"1", "1", ".", "0", "0">>

\* C23 witness: on FoodCheckout with pick-up chosen, two items are in the
\* cart, one of them with stock on hand.
C23_Witness ==
  /\ m.state = stateFoodBuy
  /\ m.cursor = 1
  /\ m.foodItems.len = 2
  /\ \A i \in 1..2 : m.foodItems.arr[i].CartQty > 0
  /\ \E i \in 1..2 : m.foodItems.arr[i].Amount > 0

\* C24: a fetch result, a sync success and a recipe result leave the screen
\* and the cursor as they are, whatever the screen, and are applied all the
\* same: the fetch result sets the status and loads the categories it brings,
\* the sync success starts a fetch, the recipe result stores the recipe and
\* ends the wait.  Of all results and failures of commands, only the end of
\* the checkout and the end of the scrape change the screen.
C24_ResultsApplyAndKeepScreen ==
  \A i \in 1..Len(tasks) : \A msg \in ResultsOf(tasks[i]) :
    LET r == Update(m, msg)
        named(n) == {j \in 1..Len(msg.cats) : msg.cats[j].name = n}
    IN  /\ r.m.state # m.state => msg.type \in {"buyComplete", "canvasScraped"}
        /\ msg.type \in {"dataFetched", "syncSuccess", "recipeGenerated"}
             => r.m.state = m.state /\ r.m.cursor = m.cursor
        /\ msg.type = "dataFetched"
             => /\ r.m.statusMsg = StatusLoaded
                /\ r.cmd = NoCmd
                /\ \A n \in {"Food", "Subscriptions"} : \A j \in named(n) :
                     Cardinality(named(n)) = 1
                       => /\ r.m.catIDs[n] = msg.cats[j].id
                          /\ Docs(n, Elems(Collection(r.m, n))) = msg.cats[j].items
        /\ msg.type = "syncSuccess" => r.cmd = fetchCategoriesCmd
        /\ msg.type = "recipeGenerated"
             => /\ r.m.generatedRecipe = msg.text
                /\ r.m.isGenerating = FALSE
                /\ r.cmd = NoCmd

\* C24 witness: the user has left the recipe screen for the food list while
\* the recipe asked for is still being generated, and the items the first
\* fetch brought are loaded.
C24_Witness ==
  /\ m.state = stateFood
  /\ m.isGenerating
  /\ m.foodItems.len > 0
  /\ \E i \in 1..Len(tasks) : tasks[i].kind = "recipe"

\* C25: the top-up of RestockQty is applied by a save only, once per
\* qualifying save.  A save of the food form under a positive threshold t with
\* stock a <= t (a negative entry counting as 0) stores a + RestockQty, and
\* any other save stores a.  No other event adds to a stock, even
\* of an item at or below its positive threshold: a key other than the saving
\* enter and the deleting d leaves every item as it is but for its cart
\* quantity, d leaves every remaining item as it is, a checkout completion
\* adds exactly the cart quantity, a fetch result stores exactly the stock the
\* store holds, and the other results and failures change no item.
C25_RestockOnlyBySave ==
  LET items == Elems(m.foodItems)
      stock(mm) == [i \in 1..mm.foodItems.len |-> mm.foodItems.arr[i].Amount]
      saving(msg) == /\ msg.type = "key" /\ msg.key = "enter"
                     /\ m.state = stateAddFood /\ m.focusIndex = totalFields - 1
      foods(msg) == {j \in 1..Len(msg.cats) : msg.cats[j].name = "Food"}
  IN  /\ \A msg \in Events :
           LET r == Update(m, msg)
           IN  IF r.cmd = PanicCmd THEN TRUE
               ELSE IF msg.type = "key" THEN
                 IF saving(msg) THEN
                   m.inputs[1] # <<>>
                     => LET a == Atoi(m.inputs[3])
                            t == Atoi(m.inputs[4])
                            stored == At(r.m.foodItems,
                                         IF m.editIndex >= 0 THEN m.editIndex
                                         ELSE m.foodItems.len).Amount
                            a0 == IF a < 0 THEN 0 ELSE a
                        IN  stored = (IF t > 0 /\ a0 <= t THEN a0 + RestockQty
                                      ELSE a0)
                 ELSE IF msg.key = "d" /\ m.state = stateFood THEN
                   \A i \in 1..r.m.foodItems.len :
                     r.m.foodItems.arr[i].Amount
                       = items[IF i > m.cursor THEN i + 1 ELSE i].Amount
                 ELSE stock(r.m) = stock(m)
               ELSE IF msg.type = "buyComplete" THEN
                 stock(r.m) = [i \in 1..Len(items) |->
                                 items[i].Amount + items[i].CartQty]
               ELSE IF msg.type = "dataFetched" THEN
                 IF foods(msg) = {} THEN stock(r.m) = stock(m)
                 ELSE Cardinality(foods(msg)) = 1
                        => \A j \in foods(msg) :
                             stock(r.m) = [i \in 1..Len(msg.cats[j].items) |->
                                             msg.cats[j].items[i].amount]
               ELSE stock(r.m) = stock(m)

\* C25 witness: a checkout has completed over an item whose stock was at its
\* positive threshold: the stock has grown by the one unit of the cart, from
\* 1 to 2, and not by more.
C25_Witness ==
  /\ m.statusMsg = StatusOrderPlaced
  /\ m.state = stateFood
  /\ m.foodItems.len = 1
  /\ m.foodItems.arr[1].RenewThreshold = 1
  /\ m.foodItems.arr[1].Amount = 2

\* C26: every food item the food form creates or replaces satisfies the
\* constraints of the data model whatever the fields hold: a non-empty name,
\* unit price >= 0, stock amount >= 0 and auto-renew threshold >= 0.
C26_SavedFoodItemWellFormed ==
  (m.state = stateAddFood /\ m.focusIndex = totalFields - 1)
    => LET r == Update(m, KeyMsg("enter"))
           i == IF m.editIndex >= 0 THEN m.editIndex ELSE m.foodItems.len
           stored == At(r.m.foodItems, i)
       IN  r.cmd.kind = "sync"
             => /\ stored.Name # <<>>
                /\ stored.Price >= 0
                /\ stored.Amount >= 0
                /\ stored.RenewThreshold >= 0

\* C27: on Menu the cursor is always 0, 1 or 2, and enter with the cursor on
\* entry 0, 1 or 2 moves to FoodList, Subscriptions or Academics, sets the
\* cursor to 0 and does nothing else: every collection is as before and no
\* command is returned.
C27_MenuSelection ==
  m.state = stateMenu
    => /\ m.cursor \in 0..2
       /\ Update(m, KeyMsg("enter"))
            = Ret([m EXCEPT !.state = IF m.cursor = 0 THEN stateFood
                                      ELSE IF m.cursor = 1 THEN stateSubs
                                      ELSE stateStudy,
                            !.cursor = 0],
                  NoCmd)

\* C27 witness: Academics has been selected from the third line of the menu;
\* no scrape has been asked for, the status is still that of the first fetch.
C27_Witness ==
  /\ m.state = stateStudy
  /\ m.cursor = 0
  /\ m.statusMsg \in {StatusFetching, StatusLoaded}
  /\ dispatched = 1

\* C28: r on FoodList moves to FoodRecipe and returns exactly one command, a
\* recipe generation whose ingredients are the names, in the order of the
\* collection, of the food items whose cart quantity is above 0 at that
\* moment (none when the cart is empty); the collections are as before.
C28_RecipeIngredientsAreCart ==
  m.state = stateFood
    => LET InCart(it) == it.CartQty > 0
           chosen == SelectSeq(Elems(m.foodItems), InCart)
           names == [i \in 1..Len(chosen) |-> chosen[i].Name]
       IN  Update(m, KeyMsg("r"))
             = Ret([m EXCEPT !.state = stateFoodRecipe,
                             !.isGenerating = TRUE,
                             !.generatedRecipe = RecipeConnecting],
                   generateRecipeCmd(names))

\* C28 witness: a recipe was asked for with both items of the list in the
\* cart, and the command in flight names both, in the order of the list.
C28_Witness ==
  /\ m.state = stateFoodRecipe
  /\ m.foodItems.len = 2
  /\ \E i \in 1..Len(tasks) :
       /\ tasks[i].kind = "recipe"
       /\ tasks[i].ingredients = <<m.foodItems.arr[1].Name, m.foodItems.arr[2].Name>>

\* C29: a save with a non-empty name does not fail or report an error over
\* malformed numbers: a price that does not parse is stored as 0, a stock
\* amount or threshold that does not parse counts as 0, the item is created
\* or replaced all the same, and the status carries no error.
C29_MalformedNumbersCountAsZero ==
  (/\ m.state = stateAddFood /\ m.focusIndex = totalFields - 1
   /\ m.inputs[1] # <<>>
   /\ m.editIndex < m.foodItems.len)
    => LET r == Update(m, KeyMsg("enter"))
           i == IF m.editIndex >= 0 THEN m.editIndex ELSE m.foodItems.len
           stored == At(r.m.foodItems, i)
           numeric(s) == LET u == Unsigned(s) IN u # <<>> /\ AllDigits(u)
           decimal(s) == LET u == Unsigned(s)
                         IN  \E p \in 1..Len(u) :
                               /\ u[p] = "."
                               /\ Len(u) > 1
                               /\ AllDigits(SubSeq(u, 1, p - 1))
                               /\ AllDigits(SubSeq(u, p + 1, Len(u)))
       IN  /\ r.cmd = syncCategoryCmd("Food", m.catIDs["Food"], r.m.foodItems)
           /\ r.m.foodItems.len = (IF m.editIndex >= 0 THEN m.foodItems.len
                                   ELSE m.foodItems.len + 1)
           /\ stored.Name = m.inputs[1]
           /\ r.m.statusMsg \in {StatusSyncing, AutoRenewMsg(m.inputs[1])}
           /\ ~(numeric(m.inputs[2]) \/ decimal(m.inputs[2])) => stored.Price = 0
           /\ AtoiFails(m.inputs[4]) => stored.RenewThreshold = 0
           /\ AtoiFails(m.inputs[3])
                => stored.Amount = (IF stored.RenewThreshold > 0 THEN RestockQty ELSE 0)

\* C30: while FoodForm or SubscriptionForm is open with an edit target that
\* is an index, the index is a valid index of the collection being edited, in
\* every reachable state, fetch results arriving with the form open included:
\* a save never replaces at a position outside the collection.
C30_EditTargetInRange ==
  /\ (m.state = stateAddFood /\ m.editIndex >= 0) => m.editIndex < m.foodItems.len
  /\ (m.state = stateAddSub /\ m.editIndex >= 0) => m.editIndex < m.subItems.len

\* C31: for each category name at most one create (a sync sent without a
\* stored id) is accepted by the store during a run, also when several
\* mutations are made before the first fetch result arrives: after the
\* first, every sync of that category is an update under its id.
C31_AtMostOneCreate ==
  \A n \in CategoryNames : log.created[n] <= 1

\* C32: quiescent consistency: whenever no command is in flight and every
\* command dispatched has succeeded, the local food and subscription
\* collections, cart quantities aside, are what the store holds for those
\* categories, whatever the order in which the syncs and fetches resolved.
C32_QuiescentConsistency ==
  (running = "running" /\ tasks = <<>> /\ ~log.failed)
    => \A n \in {"Food", "Subscriptions"} :
         LET held == {j \in 1..Len(server) : server[j].name = n}
             local == Docs(n, Elems(Collection(m, n)))
         IN  IF held = {} THEN local = <<>>
             ELSE \A j \in held : server[j].items = local

\* C33: when two recipe generations are in flight, the recipe text shown after
\* both results have been delivered is the result of the one dispatched last,
\* in whichever order the two results are delivered.
C33_LastDispatchedRecipeWins ==
  running = "running" =>
    \A i, j \in 1..Len(tasks) :
      (i < j /\ tasks[i].kind = "recipe" /\ tasks[j].kind = "recipe")
        => LET first == recipeGeneratedMsg(RecipeText(tasks[i].ingredients))
               last == recipeGeneratedMsg(RecipeText(tasks[j].ingredients))
           IN  /\ Update(Update(m, first).m, last).m.generatedRecipe = last.text
               /\ Update(Update(m, last).m, first).m.generatedRecipe = last.text

\* C34: at most one checkout or scrape is in flight at any time; while a
\* checkout is in flight the screen is FoodCheckoutProcessing and while a
\* scrape is in flight the screen is AcademicsSyncing, so the result of either
\* is delivered on its own loading screen and on no other.
C34_BlockingTaskOnItsScreen ==
  running = "running" =>
    /\ Cardinality({i \in 1..Len(tasks) : tasks[i].kind \in {"buy", "scrape"}}) <= 1
    /\ \A i \in 1..Len(tasks) :
         /\ tasks[i].kind = "buy" => m.state = stateProcessingBuy
         /\ tasks[i].kind = "scrape" => m.state = stateScrapingCanvas

\* C34 witness: a scrape is in flight on its loading screen, started after
\* the first fetch was answered.
C34_Witness ==
  /\ running = "running"
  /\ m.state = stateScrapingCanvas
  /\ m.statusMsg # <<"Fetching data...">>
  /\ \E i \in 1..Len(tasks) : tasks[i].kind = "scrape"

\* C35: the generating flag is set exactly when a recipe generation is in
\* flight: never set with none pending, never clear while one is pending.
C35_GeneratingIffRecipePending ==
  running = "running" =>
    (m.isGenerating <=> \E i \in 1..Len(tasks) : tasks[i].kind = "recipe")

\* C36 (as stated): edit round trip: opening the edit form on a food item of
\* the list and saving it with no field changed leaves the item's name, stock
\* amount, renew threshold and cart quantity as they were.
C36_EditRoundTrip ==
  (running = "running" /\ m.state = stateFood /\ m.cursor < m.foodItems.len)
    => LET opened == Update(m, KeyMsg("e")).m
           second == Update(opened, KeyMsg("enter")).m
           third == Update(second, KeyMsg("enter")).m
           last == Update(third, KeyMsg("enter")).m
           r == Update(last, KeyMsg("enter"))
           old == At(m.foodItems, m.cursor)
           new == At(r.m.foodItems, m.cursor)
       IN  /\ new.Name = old.Name
           /\ new.Amount = old.Amount
           /\ new.RenewThreshold = old.RenewThreshold
           /\ new.CartQty = old.CartQty

\* C36 (amended): the same round trip saves the item, keeps its name, renew
\* threshold and cart quantity, and keeps its stock amount unless the threshold
\* is positive and the stock is at or below it: then the save adds the restock
\* quantity once more.
C36_EditRoundTripUpToRestock ==
  (running = "running" /\ m.state = stateFood /\ m.cursor < m.foodItems.len)
    => LET opened == Update(m, KeyMsg("e")).m
           second == Update(opened, KeyMsg("enter")).m
           third == Update(second, KeyMsg("enter")).m
           last == Update(third, KeyMsg("enter")).m
           r == Update(last, KeyMsg("enter"))
           old == At(m.foodItems, m.cursor)
           new == At(r.m.foodItems, m.cursor)
       IN  /\ opened.state = stateAddFood
           /\ r.m.state = stateFood
           /\ r.cmd.kind = "sync"
           /\ r.m.foodItems.len = m.foodItems.len
           /\ new.Name = old.Name
           /\ new.RenewThreshold = old.RenewThreshold
           /\ new.CartQty = old.CartQty
           /\ new.Amount = IF old.RenewThreshold > 0 /\ old.Amount <= old.RenewThreshold
                           THEN old.Amount + RestockQty
                           ELSE old.Amount

\* C36 witness: the seeded item, stock 1 at threshold 1, was opened for edit
\* and saved as it was: it is stored with stock 4 and the save is being synced.
C36_Witness ==
  /\ m.state = stateFood
  /\ Elems(m.foodItems) = <<FoodItem(<<"b">>, 200, 4, 1, 0)>>
  /\ \E i \in 1..Len(tasks) : tasks[i].kind = "sync" /\ tasks[i].name = "Food"

\* C37: saving the food form with an edit target i that is an item of the
\* list replaces position i only: the length of the list, every other item and
\* the cart quantity of item i stay as they were; saving with the target
\* "new" appends exactly one item, with cart quantity 0, and changes no item
\* that was there.
C37_SaveReplacesOnlyTarget ==
  (/\ running = "running"
   /\ m.state = stateAddFood
   /\ m.focusIndex = Len(m.inputs) - 1
   /\ m.inputs[1] # <<>>
   /\ m.editIndex < m.foodItems.len)
    => LET r == Update(m, KeyMsg("enter"))
           old == Elems(m.foodItems)
           new == Elems(r.m.foodItems)
       IN  /\ r.cmd.kind = "sync"
           /\ IF m.editIndex >= 0
              THEN /\ Len(new) = Len(old)
                   /\ \A j \in 1..Len(old) : j # m.editIndex + 1 => new[j] = old[j]
                   /\ new[m.editIndex + 1].CartQty = old[m.editIndex + 1].CartQty
                   /\ new[m.editIndex + 1].Name = m.inputs[1]
              ELSE /\ Len(new) = Len(old) + 1
                   /\ SubSeq(new, 1, Len(old)) = old
                   /\ new[Len(new)].CartQty = 0
                   /\ new[Len(new)].Name = m.inputs[1]

\* C37 witness: the first of two items, one that is in the cart, was opened
\* for edit, given another name and saved: it is replaced in place, still in
\* the cart, with the second item behind it.
C37_Witness ==
  /\ m.state = stateFood
  /\ m.foodItems.len = 2
  /\ At(m.foodItems, 0).Name = <<"a">>
  /\ At(m.foodItems, 0).CartQty = 1
  /\ At(m.foodItems, 1) = FoodItem(<<"c">>, 150, 2, 2, 0)
  /\ \E i \in 1..Len(tasks) : tasks[i].kind = "sync"

\* C38: d with nothing to delete (on Menu, FoodRecipe, FoodCheckout or
\* Academics, or on FoodList or Subscriptions while the list is empty) leaves
\* the whole session as it was, the status message included, and dispatches
\* no task.
C38_DeleteNothingChangesNothing ==
  (/\ running = "running"
   /\ \/ m.state \in {stateMenu, stateFoodRecipe, stateFoodBuy, stateStudy}
      \/ m.state = stateFood /\ m.foodItems.len = 0
      \/ m.state = stateSubs /\ m.subItems.len = 0)
    => Update(m, KeyMsg("d")) = Ret(m, NoCmd)

\* C39: a sync success replaces the status message by the saved confirmation
\* only when the message is one of the pending-sync messages, and leaves any
\* other message (an auto-renew announcement, the order-placed message) as it
\* is; and the status message reports a pending sync only while a sync is in
\* flight.
C39_PendingSyncStatus ==
  running = "running" =>
    LET pending == {StatusSyncing, StatusSyncingDeletion, StatusSyncingCanvas}
    IN  /\ Update(m, syncSuccessMsg).m
             = IF m.statusMsg \in pending THEN [m EXCEPT !.statusMsg = StatusSaved]
               ELSE m
        /\ m.statusMsg \in pending
             => \E i \in 1..Len(tasks) : tasks[i].kind = "sync"

\* C40: while a form is open, esc and enter on the last field are the only
\* keys that leave it, and esc saves nothing; q and backspace neither quit
\* nor navigate; no key but enter on the last field changes a collection or
\* dispatches a sync; and ctrl+c still quits.
C40_FormKeys ==
  (running = "running" /\ m.state \in {stateAddFood, stateAddSub})
    => \A k \in Keys :
         LET r == Update(m, KeyMsg(k))
             kept == /\ r.m.foodItems = m.foodItems
                     /\ r.m.subItems = m.subItems
                     /\ r.cmd = NoCmd
         IN  IF k = "ctrl+c" THEN r.cmd = QuitCmd
             ELSE IF k = "enter" /\ m.focusIndex = totalFields - 1
             THEN r.m.state # m.state \/ r.cmd = PanicCmd
             ELSE IF k = "esc"
             THEN /\ kept
                  /\ r.m.state = (IF m.state = stateAddFood THEN stateFood ELSE stateSubs)
             ELSE /\ kept
                  /\ r.m.state = m.state

\* C40 witness: a form is open over a list that holds an item, and the key
\* that opens a form on the list screen was typed into its name field as a
\* letter.
C40_Witness ==
  /\ running = "running"
  /\ m.state \in {stateAddFood, stateAddSub}
  /\ m.inputs[1] = <<"a">>
  /\ m.foodItems.len + m.subItems.len > 0

====
